---- MODULE Spec2Model ----
(***************************************************************************)
(* Endless runner: Player, ScoreManager, ObstacleManager,                  *)
(* CollisionDetector and the Game state machine.                           *)
(*                                                                         *)
(* Units.  Lengths are integers in micro-units (1e-6 world units), angles  *)
(* in 1e-4 rad, time and score in deciseconds (0.1 s).  With these units   *)
(*   speed = initialSpeed + score * speedIncreaseRate                      *)
(* is 200000 + score, and every constant of the source is an integer.      *)
(* Arithmetic is exact; the source computes in IEEE doubles, whose         *)
(* rounding (about 1e-15) does not change any comparison on the jump arc   *)
(* (the sign tests at update 30 and 59 agree with exact arithmetic).  The  *)
(* lateral position is the exception: there the rounding decides the edge  *)
(* test, and the model keeps the rounding error (LateralRounding).         *)
(***************************************************************************)
EXTENDS Integers, Sequences, FiniteSets, TLC

----------------------------------------------------------------------------
(* Vectors and boxes (THREE.Vector3, THREE.Box3)                           *)

Vec(x, y, z) ==
    <<x, y, z>>

Box(mn, mx) ==
    [min |-> mn, max |-> mx]

\* collider: null
NullBox ==
    [min |-> <<>>, max |-> <<>>]

SetMin(S) ==
    CHOOSE m \in S : \A s \in S : m <= s

SetMax(S) ==
    CHOOSE m \in S : \A s \in S : m >= s

Abs(a) ==
    IF a < 0 THEN -a ELSE a

\* Math.sin / Math.cos at the angles the program uses, scaled by 10000.
SinTab ==
    0 :> 0 @@ 100 :> 100 @@ 200 :> 200 @@ 300 :> 300 @@ 400 :> 400 @@
    500 :> 500 @@ 600 :> 600 @@ 700 :> 699 @@ 800 :> 799 @@ 900 :> 899 @@
    1000 :> 998 @@ 1100 :> 1098 @@ 1200 :> 1197 @@ 1300 :> 1296 @@
    1400 :> 1395 @@ 1500 :> 1494 @@ 1600 :> 1593 @@ 1700 :> 1692 @@
    1800 :> 1790 @@ 1900 :> 1889 @@ 2000 :> 1987 @@ 2500 :> 2474 @@
    3000 :> 2955 @@ 3500 :> 3429 @@ 4000 :> 3894 @@ 5000 :> 4794 @@
    6000 :> 5646 @@ 7000 :> 6442 @@ 8000 :> 7174

CosTab ==
    0 :> 10000 @@ 100 :> 10000 @@ 200 :> 9998 @@ 300 :> 9996 @@
    400 :> 9992 @@ 500 :> 9988 @@ 600 :> 9982 @@ 700 :> 9976 @@
    800 :> 9968 @@ 900 :> 9960 @@ 1000 :> 9950 @@ 1100 :> 9940 @@
    1200 :> 9928 @@ 1300 :> 9916 @@ 1400 :> 9902 @@ 1500 :> 9888 @@
    1600 :> 9872 @@ 1700 :> 9856 @@ 1800 :> 9838 @@ 1900 :> 9820 @@
    2000 :> 9801 @@ 2500 :> 9689 @@ 3000 :> 9553 @@ 3500 :> 9394 @@
    4000 :> 9211 @@ 5000 :> 8776 @@ 6000 :> 8253 @@ 7000 :> 7648 @@
    8000 :> 6967

Sin(a) ==
    IF a < 0 THEN -SinTab[-a] ELSE SinTab[a]

Cos(a) ==
    CosTab[Abs(a)]

\* Box3.intersectsBox: the boxes are disjoint only if separated on an axis
\* (box.max < this.min or box.min > this.max); touching boxes intersect.
intersectsBox(a, b) ==
    IF \/ b.max[1] < a.min[1] \/ b.min[1] > a.max[1]
       \/ b.max[2] < a.min[2] \/ b.min[2] > a.max[2]
       \/ b.max[3] < a.min[3] \/ b.min[3] > a.max[3]
    THEN FALSE
    ELSE TRUE

\* new Box3(center - size * scale / 2, center + size * scale / 2), the scale
\* given per axis in tenths.
ScaledBox(raw, s) ==
    LET size   == [i \in 1..3 |-> raw.max[i] - raw.min[i]]
        center == [i \in 1..3 |-> (raw.min[i] + raw.max[i]) \div 2]
    IN  Box([i \in 1..3 |-> center[i] - (size[i] * s[i]) \div 20],
            [i \in 1..3 |-> center[i] + (size[i] * s[i]) \div 20])

----------------------------------------------------------------------------
(* Player                                                                  *)

JumpForce ==
    150000

Gravity ==
    5000

LateralSpeed ==
    300000

MaxLateralPosition ==
    3000000

\* this.position = {x: 0, y: 0, z: 5}
PositionX ==
    0

PositionY ==
    0

PositionZ ==
    5000000

LegRotationSpeed ==
    1000

\* Math.PI / 4 in 1e-4 rad
MaxLegRotation ==
    7854

TiltStep ==
    500

MaxTilt ==
    2000

TiltReturnStep ==
    100

\* the player's collider is 0.8 of the mesh box on every axis (in tenths)
PlayerColliderScale ==
    <<8, 8, 8>>

TiltAngles ==
    {TiltReturnStep * k : k \in -20..20}

LegAngles ==
    {LegRotationSpeed * k : k \in -8..8}

\* The six boxes of createPlayer (position and half extents in 1e-4 units)
\* with the rotation about x that animateRunning gives each of them.
PlayerParts(leg) ==
    << [pos |-> Vec(0, 15000, 0),     half |-> Vec(5000, 7500, 2500), rx |-> 0],
       [pos |-> Vec(0, 24000, 0),     half |-> Vec(4000, 4000, 4000), rx |-> 0],
       [pos |-> Vec(-3000, 5000, 0),  half |-> Vec(2000, 5000, 2000), rx |-> leg],
       [pos |-> Vec(3000, 5000, 0),   half |-> Vec(2000, 5000, 2000), rx |-> -leg],
       [pos |-> Vec(-7000, 15000, 0), half |-> Vec(2000, 5000, 2000), rx |-> -(leg \div 2)],
       [pos |-> Vec(7000, 15000, 0),  half |-> Vec(2000, 5000, 2000), rx |-> leg \div 2] >>

Round4(n) ==
    (n + 5000) \div 10000

\* World position (relative to mesh.position) of one corner of a part:
\* the part's rotation about x, its offset in the group, the group's
\* rotation about z.
PartCorner(part, sx, sy, sz, tilt) ==
    LET cx == sx * part.half[1]
        cy == sy * part.half[2]
        cz == sz * part.half[3]
        qx == part.pos[1] + cx
        qy == part.pos[2] + Round4(cy * Cos(part.rx) - cz * Sin(part.rx))
        qz == part.pos[3] + Round4(cy * Sin(part.rx) + cz * Cos(part.rx))
    IN  Vec(Round4(qx * Cos(tilt) - qy * Sin(tilt)),
            Round4(qx * Sin(tilt) + qy * Cos(tilt)),
            qz)

\* Box3.setFromObject(this.mesh) relative to mesh.position, for every pose.
PlayerMeshBox ==
    [tilt \in TiltAngles, leg \in LegAngles |->
        LET parts == PlayerParts(leg)
            pts   == {PartCorner(parts[k], sx, sy, sz, tilt) :
                        k \in 1..6, sx \in {-1, 1}, sy \in {-1, 1}, sz \in {-1, 1}}
        IN  Box([i \in 1..3 |-> SetMin({pt[i] : pt \in pts})],
                [i \in 1..3 |-> SetMax({pt[i] : pt \in pts})])]

\* Box3.setFromObject for the player's group at its current pose.
setFromPlayer(p) ==
    LET lb  == PlayerMeshBox[p.rotZ, p.currentLegRotation]
        pos == Vec(p.x, p.y, PositionZ)
    IN  Box([i \in 1..3 |-> pos[i] + 100 * lb.min[i]],
            [i \in 1..3 |-> pos[i] + 100 * lb.max[i]])

\* A faulty variant of updateCollider: the box is scaled about the origin
\* instead of about its centre.
updateColliderAboutOrigin(p) ==
    LET raw == setFromPlayer(p)
    IN  [p EXCEPT !.collider =
            Box([i \in 1..3 |-> (raw.min[i] * PlayerColliderScale[i]) \div 10],
                [i \in 1..3 |-> (raw.max[i] * PlayerColliderScale[i]) \div 10])]

updateCollider(p) ==
    [p EXCEPT !.collider = ScaledBox(setFromPlayer(p), PlayerColliderScale)]

\* constructor and createPlayer: jumpVelocity is not assigned (<<>>).
NewPlayer ==
    updateCollider([isJumping |-> FALSE, isFalling |-> FALSE,
                    jumpVelocity |-> <<>>,
                    x |-> PositionX, xErr |-> 0, y |-> PositionY,
                    rotZ |-> 0,
                    currentLegRotation |-> 0, legRotationDirection |-> 1,
                    collider |-> NullBox])

\* A faulty variant of jump: the test of the two flags is left out.
jumpUnguarded(p) ==
    [p EXCEPT !.isJumping = TRUE, !.jumpVelocity = <<JumpForce>>]

jump(p) ==
    IF ~p.isJumping /\ ~p.isFalling
    THEN [p EXCEPT !.isJumping = TRUE, !.jumpVelocity = <<JumpForce>>]
    ELSE p

\* A faulty variant of returnToCenter: the tilt is left alone while the
\* player is in the air.
returnToCenterGrounded(p) ==
    IF p.isJumping \/ p.isFalling THEN p
    ELSE IF p.rotZ > TiltReturnStep
         THEN [p EXCEPT !.rotZ = p.rotZ - TiltReturnStep]
         ELSE IF p.rotZ < -TiltReturnStep
              THEN [p EXCEPT !.rotZ = p.rotZ + TiltReturnStep]
              ELSE [p EXCEPT !.rotZ = 0]

returnToCenter(p) ==
    IF p.rotZ > TiltReturnStep
    THEN [p EXCEPT !.rotZ = p.rotZ - TiltReturnStep]
    ELSE IF p.rotZ < -TiltReturnStep
         THEN [p EXCEPT !.rotZ = p.rotZ + TiltReturnStep]
         ELSE [p EXCEPT !.rotZ = 0]

animateRunning(p) ==
    LET cur == p.currentLegRotation + LegRotationSpeed * p.legRotationDirection
    IN  [p EXCEPT !.currentLegRotation = cur,
                  !.legRotationDirection =
                      IF Abs(cur) >= MaxLegRotation
                      THEN -p.legRotationDirection
                      ELSE p.legRotationDirection]

\* A faulty variant of JumpStep: the top of the jump is tested with
\* jumpVelocity < 0.
JumpStepLateTop(p) ==
    LET v  == p.jumpVelocity[1] - Gravity
        y1 == p.y + v
        top == p.isJumping /\ v < 0
        jumping1 == IF top THEN FALSE ELSE p.isJumping
        falling1 == IF top THEN TRUE ELSE p.isFalling
        landed == falling1 /\ y1 <= PositionY
    IN  [p EXCEPT !.jumpVelocity = <<v>>,
                  !.y = IF landed THEN PositionY ELSE y1,
                  !.isJumping = jumping1,
                  !.isFalling = IF landed THEN FALSE ELSE falling1]

\* The jumping / falling branch of update().
JumpStep(p) ==
    LET v  == p.jumpVelocity[1] - Gravity
        y1 == p.y + v
        top == p.isJumping /\ v <= 0
        jumping1 == IF top THEN FALSE ELSE p.isJumping
        falling1 == IF top THEN TRUE ELSE p.isFalling
        landed == falling1 /\ y1 <= PositionY
    IN  [p EXCEPT !.jumpVelocity = <<v>>,
                  !.y = IF landed THEN PositionY ELSE y1,
                  !.isJumping = jumping1,
                  !.isFalling = IF landed THEN FALSE ELSE falling1]

PlayerUpdate(p) ==
    LET moved == IF p.isJumping \/ p.isFalling
                 THEN JumpStep(p)
                 ELSE animateRunning(p)
    IN  updateCollider(returnToCenter(moved))

\* IEEE-754 double rounding of mesh.position.x -= 0.3 and += 0.3.  A lateral
\* position is the pair <<x, xErr>>: x the nominal multiple of lateralSpeed in
\* micro-units, xErr the distance of the stored double from it in units of
\* 1e-17.  The table lists every double reachable from 0 by the two moves
\* and gives the xErr after a move left and after a move right.
LateralRounding ==
    <<-3300000, 62>> :> <<62, 44>> @@ <<-3000000, 44>> :> <<62, 27>> @@
    <<-2700000, 27>> :> <<44, 9>> @@ <<-2400000, 9>> :> <<27, -9>> @@
    <<-2100000, -9>> :> <<9, -4>> @@ <<-1800000, -27>> :> <<-9, -22>> @@
    <<-1800000, -4>> :> <<-9, 0>> @@ <<-1500000, -22>> :> <<-27, -18>> @@
    <<-1500000, 0>> :> <<-4, 4>> @@ <<-1200000, -18>> :> <<-22, -13>> @@
    <<-1200000, 4>> :> <<0, 9>> @@ <<-900000, -13>> :> <<-18, -9>> @@
    <<-900000, 9>> :> <<4, 13>> @@ <<-600000, -9>> :> <<-13, -10>> @@
    <<-600000, 2>> :> <<9, 1>> @@ <<-600000, 13>> :> <<9, 12>> @@
    <<-300000, -10>> :> <<-9, -11>> @@ <<-300000, 1>> :> <<2, 0>> @@
    <<-300000, 12>> :> <<13, 11>> @@ <<0, -11>> :> <<-10, -12>> @@
    <<0, 0>> :> <<1, -1>> @@ <<0, 11>> :> <<12, 10>> @@
    <<300000, -12>> :> <<-11, -13>> @@ <<300000, -1>> :> <<0, -2>> @@
    <<300000, 10>> :> <<11, 9>> @@ <<600000, -13>> :> <<-12, -9>> @@
    <<600000, -2>> :> <<-1, -9>> @@ <<600000, 9>> :> <<10, 13>> @@
    <<900000, -9>> :> <<-13, -4>> @@ <<900000, 13>> :> <<9, 18>> @@
    <<1200000, -4>> :> <<-9, 0>> @@ <<1200000, 18>> :> <<13, 22>> @@
    <<1500000, 0>> :> <<-4, 4>> @@ <<1500000, 22>> :> <<18, 27>> @@
    <<1800000, 4>> :> <<0, 9>> @@ <<1800000, 27>> :> <<22, 9>> @@
    <<2100000, 9>> :> <<4, -9>> @@ <<2400000, -9>> :> <<9, -27>> @@
    <<2700000, -27>> :> <<-9, -44>> @@ <<3000000, -44>> :> <<-27, -62>> @@
    <<3300000, -62>> :> <<-44, -62>>

\* mesh.position.x > bound and mesh.position.x < bound on the stored double
LateralGreater(p, bound) ==
    p.x > bound \/ (p.x = bound /\ p.xErr > 0)

LateralLess(p, bound) ==
    p.x < bound \/ (p.x = bound /\ p.xErr < 0)

\* A faulty variant of moveLeft: this.updateCollider() is left out.
moveLeftStale(p) ==
    IF LateralGreater(p, -MaxLateralPosition)
    THEN [p EXCEPT !.x = p.x - LateralSpeed,
                   !.xErr = LateralRounding[<<p.x, p.xErr>>][1],
                   !.rotZ = IF p.rotZ + TiltStep < MaxTilt
                            THEN p.rotZ + TiltStep ELSE MaxTilt]
    ELSE p

moveLeft(p) ==
    IF LateralGreater(p, -MaxLateralPosition)
    THEN updateCollider([p EXCEPT !.x = p.x - LateralSpeed,
                                  !.xErr = LateralRounding[<<p.x, p.xErr>>][1],
                                  !.rotZ = IF p.rotZ + TiltStep < MaxTilt
                                           THEN p.rotZ + TiltStep ELSE MaxTilt])
    ELSE p

moveRight(p) ==
    IF LateralLess(p, MaxLateralPosition)
    THEN updateCollider([p EXCEPT !.x = p.x + LateralSpeed,
                                  !.xErr = LateralRounding[<<p.x, p.xErr>>][2],
                                  !.rotZ = IF p.rotZ - TiltStep > -MaxTilt
                                           THEN p.rotZ - TiltStep ELSE -MaxTilt])
    ELSE p

\* A faulty variant of reset: the flags are cleared but mesh.position is not
\* set back.
PlayerResetFlagsOnly(p) ==
    updateCollider([p EXCEPT !.isJumping = FALSE, !.isFalling = FALSE,
                             !.rotZ = 0])

PlayerReset(p) ==
    updateCollider([p EXCEPT !.isJumping = FALSE, !.isFalling = FALSE,
                             !.x = PositionX, !.xErr = 0,
                             !.y = PositionY, !.rotZ = 0])

\* The three phases of the specification, read off the two flags.
Phase(p) ==
    IF p.isJumping THEN "Ascending"
    ELSE IF p.isFalling THEN "Descending" ELSE "Grounded"


----------------------------------------------------------------------------
(* ObstacleManager                                                         *)

ObstacleTypes ==
    <<"rock", "log", "tree", "puddle", "barrier">>

SpawnDistance ==
    80000000

MinSpawnInterval ==
    15

MaxSpawnInterval ==
    30

InitialSpeed ==
    200000

\* 0.00001 world units per second of score = 1 micro-unit per decisecond
SpeedIncreaseRate ==
    1

PreloadCount ==
    10

\* if (obstacle.mesh.position.z > 10)
PassedZ ==
    10000000

LaneWidth ==
    2000000

Lanes ==
    {-1, 0, 1}

\* colliderScale of createObstacle, in tenths
ColliderScale(type) ==
    CASE type = "rock"    -> <<9, 9, 9>>
      [] type = "log"     -> <<9, 9, 12>>
      [] type = "tree"    -> <<7, 9, 7>>
      [] type = "puddle"  -> <<12, 5, 12>>
      [] type = "barrier" -> <<11, 9, 8>>

\* Extents of the mesh built by createRock, createLog, createTree,
\* createPuddle and createBarrier, relative to mesh.position.x / .z (the y
\* extents are absolute: rock and puddle carry their own position.y).
MeshExtent(type) ==
    CASE type = "rock"    -> Box(Vec(-800000, -300000, -800000),
                                 Vec(800000, 1300000, 800000))
      [] type = "log"     -> Box(Vec(-1500000, 0, -500000),
                                 Vec(1500000, 1000000, 500000))
      [] type = "tree"    -> Box(Vec(-1200000, 0, -1200000),
                                 Vec(1200000, 4500000, 1200000))
      [] type = "puddle"  -> Box(Vec(-1500000, 0, -1500000),
                                 Vec(1500000, 100000, 1500000))
      [] type = "barrier" -> Box(Vec(-1500000, -1500000, -150000),
                                 Vec(1500000, 1650000, 150000))

createObstacle(type) ==
    [type |-> type, x |-> 0, z |-> 0, visible |-> FALSE,
     collider |-> NullBox, active |-> FALSE]

\* Box3.setFromObject(obstacle.mesh)
setFromObstacle(o) ==
    LET e == MeshExtent(o.type)
    IN  Box(Vec(o.x + e.min[1], e.min[2], o.z + e.min[3]),
            Vec(o.x + e.max[1], e.max[2], o.z + e.max[3]))

\* A faulty variant of updateObstacleCollider: the box is scaled about the
\* origin instead of about its centre.
updateObstacleColliderAboutOrigin(o) ==
    LET raw == setFromObstacle(o)
        s   == ColliderScale(o.type)
    IN  [o EXCEPT !.collider =
            Box([i \in 1..3 |-> (raw.min[i] * s[i]) \div 10],
                [i \in 1..3 |-> (raw.max[i] * s[i]) \div 10])]

updateObstacleCollider(o) ==
    [o EXCEPT !.collider = ScaledBox(setFromObstacle(o), ColliderScale(o.type))]

\* constructor: ten records of the given kinds in the pool, in creation
\* order; interval is the first getRandomSpawnInterval().
NewObstacleManager(types, interval) ==
    [objs |-> [i \in 1..Len(types) |-> createObstacle(types[i])],
     activeObstacles |-> <<>>,
     obstaclePool |-> [i \in 1..Len(types) |-> i],
     nextSpawnTime |-> interval,
     timeSinceLastSpawn |-> 0,
     speed |-> InitialSpeed]

\* A faulty variant of spawnObstacle: the pool is not consulted, every spawn
\* creates a record.
spawnObstacleAlwaysNew(om, type, lane) ==
    LET placed == updateObstacleCollider(
                     [createObstacle(type) EXCEPT
                         !.z = -SpawnDistance, !.x = lane * LaneWidth,
                         !.visible = TRUE, !.active = TRUE])
    IN  [om EXCEPT
           !.objs = Append(om.objs, placed),
           !.activeObstacles = Append(om.activeObstacles, Len(om.objs) + 1)]

\* A faulty variant of spawnObstacle: the pool gives its first record
\* (shift) instead of its last (pop).
spawnObstacleShifting(om, type, lane) ==
    LET fromPool == Len(om.obstaclePool) > 0
        id   == IF fromPool THEN om.obstaclePool[1] ELSE Len(om.objs) + 1
        rec  == IF fromPool THEN om.objs[id] ELSE createObstacle(type)
        placed == updateObstacleCollider(
                     [rec EXCEPT !.z = -SpawnDistance, !.x = lane * LaneWidth,
                                 !.visible = TRUE, !.active = TRUE])
    IN  [om EXCEPT
           !.obstaclePool = IF fromPool THEN Tail(om.obstaclePool)
                            ELSE om.obstaclePool,
           !.objs = IF fromPool THEN [om.objs EXCEPT ![id] = placed]
                    ELSE Append(om.objs, placed),
           !.activeObstacles = Append(om.activeObstacles, id)]

\* spawnObstacle(); type and lane are the values Math.random() yields.
spawnObstacle(om, type, lane) ==
    LET fromPool == Len(om.obstaclePool) > 0
        id   == IF fromPool THEN om.obstaclePool[Len(om.obstaclePool)]
                ELSE Len(om.objs) + 1
        rec  == IF fromPool THEN om.objs[id] ELSE createObstacle(type)
        placed == updateObstacleCollider(
                     [rec EXCEPT !.z = -SpawnDistance, !.x = lane * LaneWidth,
                                 !.visible = TRUE, !.active = TRUE])
    IN  [om EXCEPT
           !.obstaclePool = IF fromPool
                            THEN SubSeq(om.obstaclePool, 1, Len(om.obstaclePool) - 1)
                            ELSE om.obstaclePool,
           !.objs = IF fromPool THEN [om.objs EXCEPT ![id] = placed]
                    ELSE Append(om.objs, placed),
           !.activeObstacles = Append(om.activeObstacles, id)]

\* A faulty variant of the removal: activeObstacles.pop() in place of
\* splice(i, 1).
SpliceLast(seq, i) ==
    SubSeq(seq, 1, Len(seq) - 1)

\* activeObstacles.splice(i, 1)
Splice(seq, i) ==
    SubSeq(seq, 1, i - 1) \o SubSeq(seq, i + 1, Len(seq))

\* A faulty variant of MoveObstacle: a passed record leaves activeObstacles
\* but is not pushed back to the pool.
MoveObstacleLeaking(om, i) ==
    LET id    == om.activeObstacles[i]
        moved == updateObstacleCollider(
                    [om.objs[id] EXCEPT !.z = om.objs[id].z + om.speed])
    IN  IF moved.z > PassedZ
        THEN [om EXCEPT
                !.objs = [om.objs EXCEPT
                            ![id] = [moved EXCEPT !.visible = FALSE,
                                                  !.active = FALSE]],
                !.activeObstacles = Splice(om.activeObstacles, i)]
        ELSE [om EXCEPT !.objs = [om.objs EXCEPT ![id] = moved]]

\* A faulty variant of MoveObstacle: a record that has passed is hidden but
\* stays in activeObstacles.
MoveObstacleKeeping(om, i) ==
    LET id    == om.activeObstacles[i]
        moved == updateObstacleCollider(
                    [om.objs[id] EXCEPT !.z = om.objs[id].z + om.speed])
    IN  IF moved.z > PassedZ
        THEN [om EXCEPT
                !.objs = [om.objs EXCEPT
                            ![id] = [moved EXCEPT !.visible = FALSE,
                                                  !.active = FALSE]]]
        ELSE [om EXCEPT !.objs = [om.objs EXCEPT ![id] = moved]]

\* One iteration of the loop of update(), at index i (1-based).
MoveObstacle(om, i) ==
    LET id    == om.activeObstacles[i]
        moved == updateObstacleCollider(
                    [om.objs[id] EXCEPT !.z = om.objs[id].z + om.speed])
    IN  IF moved.z > PassedZ
        THEN [om EXCEPT
                !.objs = [om.objs EXCEPT
                            ![id] = [moved EXCEPT !.visible = FALSE,
                                                  !.active = FALSE]],
                !.activeObstacles = Splice(om.activeObstacles, i),
                !.obstaclePool = Append(om.obstaclePool, id)]
        ELSE [om EXCEPT !.objs = [om.objs EXCEPT ![id] = moved]]

\* A faulty variant of MoveLoop: the loop runs from the first index to the
\* last, so that the record behind a removed one is not visited.
RECURSIVE MoveForwardFrom(_, _)
MoveForwardFrom(om, k) ==
    IF k > Len(om.activeObstacles) THEN om
    ELSE MoveForwardFrom(MoveObstacle(om, k), k + 1)

MoveLoopForward(om, i) ==
    MoveForwardFrom(om, 1)

\* for (let i = this.activeObstacles.length - 1; i >= 0; i--)
RECURSIVE MoveLoop(_, _)
MoveLoop(om, i) ==
    IF i < 1 THEN om
    ELSE MoveLoop(MoveObstacle(om, i), i - 1)

\* The spawn timer of update(): whether this call spawns.
SpawnDue(om, deltaTime) ==
    om.timeSinceLastSpawn + deltaTime >= om.nextSpawnTime

\* A faulty variant of update: the increase is added to the current speed
\* instead of the initial speed.
ObstaclesUpdateAddingSpeed(om, deltaTime, score, type, lane, interval) ==
    LET timed   == [om EXCEPT
                      !.speed = om.speed + score * SpeedIncreaseRate,
                      !.timeSinceLastSpawn = om.timeSinceLastSpawn + deltaTime]
        spawned == IF timed.timeSinceLastSpawn >= timed.nextSpawnTime
                   THEN [spawnObstacle(timed, type, lane) EXCEPT
                           !.timeSinceLastSpawn = 0,
                           !.nextSpawnTime = interval]
                   ELSE timed
    IN  MoveLoop(spawned, Len(spawned.activeObstacles))

\* A faulty variant of update: the spawn timer catches up, spawning once for
\* every interval that has elapsed.
ObstaclesUpdateCatchingUp(om, deltaTime, score, type, lane, interval) ==
    LET timed   == [om EXCEPT
                      !.speed = InitialSpeed + score * SpeedIncreaseRate,
                      !.timeSinceLastSpawn = om.timeSinceLastSpawn + deltaTime]
        once    == spawnObstacle(timed, type, lane)
        spawned == IF timed.timeSinceLastSpawn >= 2 * timed.nextSpawnTime
                   THEN [spawnObstacle(once, type, lane) EXCEPT
                           !.timeSinceLastSpawn = 0,
                           !.nextSpawnTime = interval]
                   ELSE IF timed.timeSinceLastSpawn >= timed.nextSpawnTime
                        THEN [once EXCEPT !.timeSinceLastSpawn = 0,
                                          !.nextSpawnTime = interval]
                        ELSE timed
    IN  MoveLoop(spawned, Len(spawned.activeObstacles))

\* A faulty variant of update: the obstacles advance by speed * deltaTime
\* (deltaTime in tenths of a second) instead of by speed.
ObstaclesUpdateScaled(om, deltaTime, score, type, lane, interval) ==
    LET timed   == [om EXCEPT
                      !.speed = InitialSpeed + score * SpeedIncreaseRate,
                      !.timeSinceLastSpawn = om.timeSinceLastSpawn + deltaTime]
        spawned == IF timed.timeSinceLastSpawn >= timed.nextSpawnTime
                   THEN [spawnObstacle(timed, type, lane) EXCEPT
                           !.timeSinceLastSpawn = 0,
                           !.nextSpawnTime = interval]
                   ELSE timed
        scaled  == [spawned EXCEPT !.speed = (spawned.speed * deltaTime) \div 10]
    IN  [MoveLoop(scaled, Len(scaled.activeObstacles)) EXCEPT
            !.speed = spawned.speed]

ObstaclesUpdate(om, deltaTime, score, type, lane, interval) ==
    LET timed   == [om EXCEPT
                      !.speed = InitialSpeed + score * SpeedIncreaseRate,
                      !.timeSinceLastSpawn = om.timeSinceLastSpawn + deltaTime]
        spawned == IF timed.timeSinceLastSpawn >= timed.nextSpawnTime
                   THEN [spawnObstacle(timed, type, lane) EXCEPT
                           !.timeSinceLastSpawn = 0,
                           !.nextSpawnTime = interval]
                   ELSE timed
    IN  MoveLoop(spawned, Len(spawned.activeObstacles))

\* A faulty variant of the loop of reset(): the meshes are not hidden.
RECURSIVE ReturnAllVisible(_, _)
ReturnAllVisible(om, i) ==
    IF i > Len(om.activeObstacles) THEN om
    ELSE LET id == om.activeObstacles[i]
         IN  ReturnAllVisible([om EXCEPT
                                 !.objs = [om.objs EXCEPT
                                             ![id] = [om.objs[id] EXCEPT
                                                        !.active = FALSE]],
                                 !.obstaclePool = Append(om.obstaclePool, id)],
                              i + 1)

\* for (const obstacle of this.activeObstacles) { ... obstaclePool.push }
RECURSIVE ReturnAll(_, _)
ReturnAll(om, i) ==
    IF i > Len(om.activeObstacles) THEN om
    ELSE LET id == om.activeObstacles[i]
         IN  ReturnAll([om EXCEPT
                          !.objs = [om.objs EXCEPT
                                      ![id] = [om.objs[id] EXCEPT
                                                 !.visible = FALSE,
                                                 !.active = FALSE]],
                          !.obstaclePool = Append(om.obstaclePool, id)],
                       i + 1)

\* A faulty variant of reset: activeObstacles is not cleared.
ObstaclesResetKeepingActive(om, interval) ==
    [ReturnAll(om, 1) EXCEPT !.speed = InitialSpeed,
                             !.timeSinceLastSpawn = 0,
                             !.nextSpawnTime = interval]

ObstaclesReset(om, interval) ==
    [ReturnAll(om, 1) EXCEPT !.activeObstacles = <<>>,
                             !.speed = InitialSpeed,
                             !.timeSinceLastSpawn = 0,
                             !.nextSpawnTime = interval]

----------------------------------------------------------------------------
(* CollisionDetector                                                       *)

\* A faulty variant of checkObstacleCollision: boxes that only touch are not
\* taken to intersect.
checkObstacleCollisionStrict(p, obstacle) ==
    IF obstacle.collider = NullBox
    THEN FALSE
    ELSE \A k \in 1..3 :
            /\ p.collider.min[k] < obstacle.collider.max[k]
            /\ obstacle.collider.min[k] < p.collider.max[k]

checkObstacleCollision(p, obstacle) ==
    IF obstacle.collider = NullBox
    THEN FALSE
    ELSE intersectsBox(p.collider, obstacle.collider)

\* A faulty variant of CollisionScan: an obstacle without a collider ends
\* the scan instead of being skipped.
RECURSIVE CollisionScanStopping(_, _, _)
CollisionScanStopping(p, om, i) ==
    IF i > Len(om.activeObstacles) THEN FALSE
    ELSE IF om.objs[om.activeObstacles[i]].collider = NullBox THEN FALSE
    ELSE IF checkObstacleCollision(p, om.objs[om.activeObstacles[i]])
         THEN TRUE
         ELSE CollisionScanStopping(p, om, i + 1)

\* for (const obstacle of this.obstacles.activeObstacles) with early return
RECURSIVE CollisionScan(_, _, _)
CollisionScan(p, om, i) ==
    IF i > Len(om.activeObstacles) THEN FALSE
    ELSE IF checkObstacleCollision(p, om.objs[om.activeObstacles[i]])
         THEN TRUE
         ELSE CollisionScan(p, om, i + 1)

\* A faulty variant of the player checkCollisions() leaves behind: the
\* collider is shrunk once more, by the collisionThreshold 0.8, instead of
\* being recomputed from the mesh.
checkCollisionsPlayerShrinking(p) ==
    IF p.collider = NullBox THEN p
    ELSE [p EXCEPT !.collider = ScaledBox(p.collider, PlayerColliderScale)]

\* checkCollisions(): the result, and the player it leaves behind
\* (this.player.updateCollider() runs unless the early return is taken).
checkCollisionsPlayer(p) ==
    IF p.collider = NullBox THEN p ELSE updateCollider(p)

checkCollisions(p, om) ==
    IF p.collider = NullBox
    THEN FALSE
    ELSE CollisionScan(updateCollider(p), om, 1)


----------------------------------------------------------------------------
(* Bounds and the values drawn for the program's inputs                    *)

\* A suspension of the page (in deciseconds) long enough for the speed
\* 0.2 + score * 0.00001 to reach 28.4 after one frame and 56.6 after two: an
\* obstacle spawned at -80 is at -51.6 after the frame that spawns it and at
\* 5, the player's depth, after the next.
LongPause ==
    28200000

\* Elapsed time between two frames, in deciseconds.
DeltaTimes ==
    {LongPause}

\* Frames of a game beyond which no further time is fed to it: the score is
\* capped at MaxFrames long pauses.
MaxFrames ==
    3

MaxScore ==
    MaxFrames * LongPause

\* Games beyond which no further start or restart is taken.
MaxGames ==
    2

\* Lateral moves beyond which no further moveLeft() or moveRight() is called
\* on a Player exercised together with its jump.
MaxMoves ==
    1

\* Calls of update() and reset() made to an ObstacleManager taken alone.
MaxCalls ==
    12

\* Obstacle records beyond which no call that would create one is taken.
MaxObstacles ==
    12

\* getRandomSpawnInterval(): Math.random() * 1.5 + 1.5
SpawnIntervals ==
    {MinSpawnInterval, MaxSpawnInterval}

\* Kinds Math.random() can give the ten preloaded records: the five kinds in
\* turn, starting from any of them, so that the record spawned first (the
\* last of the pool) is of each kind in some run.
PreloadTypes ==
    {[i \in 1..PreloadCount |-> ObstacleTypes[((i + k) % 5) + 1]] : k \in 0..4}

----------------------------------------------------------------------------
(* State                                                                   *)

VARIABLES
    state,       \* Game.state: "start", "playing", "gameOver"
    score,       \* ScoreManager.score
    highScore,   \* ScoreManager.highScore
    player,      \* Player
    obstacles,   \* ObstacleManager
    frameQ,      \* callbacks of the running animation frame still to run
    nextQ,       \* callbacks requested for the next animation frame
    afWhere,     \* where the callback named by animationFrameId waits
    collided,    \* result of the last checkCollisions()
    games,       \* number of games started so far
    jumpUpdates, \* update() calls since the last jump() that took effect
    moves,       \* moveLeft() and moveRight() calls so far
    calls,       \* calls made to the ObstacleManager taken alone
    lastEvent    \* the handler or operation that ran last

vars ==
    <<state, score, highScore, player, obstacles, frameQ, nextQ, afWhere,
      collided, games, jumpUpdates, moves, calls, lastEvent>>

\* The program state as one record, for the operators below.
Cur ==
    [state |-> state, score |-> score, highScore |-> highScore,
     player |-> player, obstacles |-> obstacles,
     frameQ |-> frameQ, nextQ |-> nextQ, afWhere |-> afWhere,
     collided |-> collided]

\* The count of update() calls made while in the air since the last jump()
\* that took effect, from player p to player q.
CountUpdate(p) ==
    IF p.isJumping \/ p.isFalling THEN jumpUpdates + 1 ELSE jumpUpdates

CountJump(p) ==
    IF ~p.isJumping /\ ~p.isFalling THEN 0 ELSE jumpUpdates

Becomes(g) ==
    /\ state' = g.state
    /\ score' = g.score
    /\ highScore' = g.highScore
    /\ player' = g.player
    /\ obstacles' = g.obstacles
    /\ frameQ' = g.frameQ
    /\ nextQ' = g.nextQ
    /\ afWhere' = g.afWhere
    /\ collided' = g.collided

\* Game constructor: state 'start', animationFrameId null, fresh components.
Init ==
    /\ state = "start"
    /\ score = 0
    /\ highScore = 0
    /\ player = NewPlayer
    /\ \E types \in PreloadTypes, interval \in SpawnIntervals :
          obstacles = NewObstacleManager(types, interval)
    /\ frameQ = 0
    /\ nextQ = 0
    /\ afWhere = "none"
    /\ collided = FALSE
    /\ games = 0
    /\ jumpUpdates = 0
    /\ moves = 0
    /\ calls = 0
    /\ lastEvent = "constructor"

----------------------------------------------------------------------------
(* ScoreManager and Game                                                   *)

addScore(g, amount) ==
    [g EXCEPT !.score = g.score + amount,
              !.highScore = IF g.score + amount > g.highScore
                            THEN g.score + amount ELSE g.highScore]

ScoreReset(g) ==
    [g EXCEPT !.score = 0]

\* requestAnimationFrame(() => this.gameLoop()) and the assignment of its
\* id to animationFrameId: the new callback is the last of the next frame.
requestAnimationFrame(g) ==
    [g EXCEPT !.nextQ = g.nextQ + 1, !.afWhere = "next"]

\* cancelAnimationFrame(this.animationFrameId): removes the callback if it
\* still waits; no effect if it has run, was cancelled, or the id is null.
cancelAnimationFrame(g) ==
    CASE g.afWhere = "frame" -> [g EXCEPT !.frameQ = g.frameQ - 1,
                                          !.afWhere = "none"]
      [] g.afWhere = "next"  -> [g EXCEPT !.nextQ = g.nextQ - 1,
                                          !.afWhere = "none"]
      [] OTHER               -> g

endGame(g) ==
    cancelAnimationFrame([g EXCEPT !.state = "gameOver"])

\* A faulty variant of gameLoop: the test of checkCollisions() is inverted.
gameLoopInverted(g, deltaTime, type, lane, interval) ==
    IF g.state = "playing"
    THEN LET scored == addScore(g, deltaTime)
             p1     == PlayerUpdate(scored.player)
             om1    == ObstaclesUpdate(scored.obstacles, deltaTime,
                                       scored.score, type, lane, interval)
             hit    == checkCollisions(p1, om1)
             ticked == [scored EXCEPT !.player = checkCollisionsPlayer(p1),
                                      !.obstacles = om1,
                                      !.collided = hit]
             ended  == IF ~hit THEN endGame(ticked) ELSE ticked
         IN  requestAnimationFrame(ended)
    ELSE g

\* A faulty variant of gameLoop: the test of the state is left out, so a
\* callback that fires outside playing ticks as well.
gameLoopAlways(g, deltaTime, type, lane, interval) ==
    LET scored == addScore(g, deltaTime)
        p1     == PlayerUpdate(scored.player)
        om1    == ObstaclesUpdate(scored.obstacles, deltaTime,
                                  scored.score, type, lane, interval)
        hit    == checkCollisions(p1, om1)
        ticked == [scored EXCEPT !.player = checkCollisionsPlayer(p1),
                                 !.obstacles = om1,
                                 !.collided = hit]
        ended  == IF hit THEN endGame(ticked) ELSE ticked
    IN  requestAnimationFrame(ended)

\* gameLoop(); deltaTime is the time since lastTime, the other arguments
\* are the values Math.random() yields should this call spawn.
gameLoop(g, deltaTime, type, lane, interval) ==
    IF g.state = "playing"
    THEN LET scored == addScore(g, deltaTime)
             p1     == PlayerUpdate(scored.player)
             om1    == ObstaclesUpdate(scored.obstacles, deltaTime,
                                       scored.score, type, lane, interval)
             hit    == checkCollisions(p1, om1)
             ticked == [scored EXCEPT !.player = checkCollisionsPlayer(p1),
                                      !.obstacles = om1,
                                      !.collided = hit]
             ended  == IF hit THEN endGame(ticked) ELSE ticked
         IN  requestAnimationFrame(ended)
    ELSE g

\* A faulty variant of startGame: this.player.reset() is left out.
startGameKeepingPlayer(g, interval, type, lane, interval2) ==
    IF g.state # "playing"
    THEN gameLoop([ScoreReset(g) EXCEPT
                     !.state = "playing",
                     !.obstacles = ObstaclesReset(g.obstacles, interval)],
                  0, type, lane, interval2)
    ELSE g

\* startGame(): the resets, then a synchronous gameLoop() whose deltaTime is
\* the time between two adjacent performance.now() reads, 0 in this unit.
startGame(g, interval, type, lane, interval2) ==
    IF g.state # "playing"
    THEN gameLoop([ScoreReset(g) EXCEPT
                     !.state = "playing",
                     !.player = PlayerReset(g.player),
                     !.obstacles = ObstaclesReset(g.obstacles, interval)],
                  0, type, lane, interval2)
    ELSE g

restartGame(g, interval, type, lane, interval2) ==
    startGame(g, interval, type, lane, interval2)

\* A faulty variant of handleKeyDown: Space is forwarded to player.jump()
\* whatever the state.
handleKeyDownJumpOnly(g, interval, type, lane, interval2) ==
    [g EXCEPT !.player = jump(g.player)]

\* handleKeyDown for event.code === 'Space'
handleKeyDown(g, interval, type, lane, interval2) ==
    IF g.state = "playing"
    THEN [g EXCEPT !.player = jump(g.player)]
    ELSE IF g.state = "start"
         THEN startGame(g, interval, type, lane, interval2)
         ELSE IF g.state = "gameOver"
              THEN restartGame(g, interval, type, lane, interval2)
              ELSE g

AllTypes ==
    {ObstacleTypes[k] : k \in 1..5}

\* The values <<type, lane, interval>> that Math.random() can yield to an
\* update(deltaTime) on om: a lane and an interval if the call spawns, a type
\* as well if the pool is empty; a fixed placeholder for a value not drawn.
Draws(om, deltaTime) ==
    IF SpawnDue(om, deltaTime)
    THEN (IF Len(om.obstaclePool) = 0 THEN AllTypes ELSE {"rock"})
            \X Lanes \X SpawnIntervals
    ELSE {<<"rock", 0, MinSpawnInterval>>}

\* Whether update(deltaTime) on om would have to create a record beyond the
\* bound on records.
OverBound(om, deltaTime) ==
    /\ SpawnDue(om, deltaTime)
    /\ Len(om.obstaclePool) = 0
    /\ Len(om.objs) >= MaxObstacles

----------------------------------------------------------------------------
(* The game: input events and animation frames                             *)

\* Input events are dispatched between animation frames, never between two
\* callbacks of one frame.
ClickStart ==
    /\ frameQ = 0
    /\ state # "playing" => games < MaxGames
    /\ UNCHANGED <<moves, calls>>
    /\ games' = IF state # "playing" THEN games + 1 ELSE games
    /\ \E i1 \in SpawnIntervals :
          \E d \in Draws(ObstaclesReset(obstacles, i1), 0) :
             \E g \in {startGame(Cur, i1, d[1], d[2], d[3])} : Becomes(g)
    /\ jumpUpdates' = jumpUpdates
    /\ lastEvent' = "startButton"

ClickRestart ==
    /\ frameQ = 0
    /\ state # "playing" => games < MaxGames
    /\ UNCHANGED <<moves, calls>>
    /\ games' = IF state # "playing" THEN games + 1 ELSE games
    /\ \E i1 \in SpawnIntervals :
          \E d \in Draws(ObstaclesReset(obstacles, i1), 0) :
             \E g \in {restartGame(Cur, i1, d[1], d[2], d[3])} : Becomes(g)
    /\ jumpUpdates' = jumpUpdates
    /\ lastEvent' = "restartButton"

KeySpace ==
    /\ frameQ = 0
    /\ state # "playing" => games < MaxGames
    /\ UNCHANGED <<moves, calls>>
    /\ games' = IF state # "playing" THEN games + 1 ELSE games
    /\ \E i1 \in (IF state = "playing" THEN {MinSpawnInterval}
                  ELSE SpawnIntervals) :
          \E d \in Draws(ObstaclesReset(obstacles, i1), 0) :
             \E g \in {handleKeyDown(Cur, i1, d[1], d[2], d[3])} : Becomes(g)
    /\ jumpUpdates' = IF state = "playing" THEN CountJump(player)
                      ELSE jumpUpdates
    /\ lastEvent' = "space"

\* The browser runs the callbacks requested for a frame one after the
\* other; the first sees the time elapsed since the last frame, a further
\* one of the same frame sees none.
AnimationFrame ==
    /\ frameQ + nextQ > 0
    /\ LET begin == frameQ = 0
           g0 == IF begin
                 THEN [Cur EXCEPT !.frameQ = nextQ, !.nextQ = 0,
                                  !.afWhere = IF afWhere = "next"
                                              THEN "frame" ELSE afWhere]
                 ELSE Cur
           \* the callback at the head of the frame leaves the queue
           g1 == [g0 EXCEPT !.frameQ = g0.frameQ - 1,
                            !.afWhere = IF g0.afWhere = "frame" /\ g0.frameQ = 1
                                        THEN "none" ELSE g0.afWhere]
       IN  \E deltaTime \in (IF ~begin \/ state # "playing"
                             THEN {0} ELSE DeltaTimes) :
              \E d \in Draws(obstacles, deltaTime) :
                 /\ state = "playing" =>
                       /\ score + deltaTime <= MaxScore
                       /\ ~OverBound(obstacles, deltaTime)
                 /\ \E g \in {gameLoop(g1, deltaTime, d[1], d[2], d[3])} : Becomes(g)
    /\ games' = games
    /\ UNCHANGED <<moves, calls>>
    /\ jumpUpdates' = IF state = "playing" THEN CountUpdate(player)
                      ELSE jumpUpdates
    /\ lastEvent' = "frame"

Next ==
    \/ ClickStart
    \/ ClickRestart
    \/ KeySpace
    \/ AnimationFrame

\* The game is run from one outcome of the constructor's random draws: the
\* record spawned first is a rock (the kinds that follow are barrier, puddle,
\* tree, log), and the first interval, which startGame replaces, is 1.5 s.
InitGame ==
    /\ Init
    /\ obstacles.objs[PreloadCount].type = "rock"
    /\ obstacles.nextSpawnTime = MinSpawnInterval

Spec ==
    InitGame /\ [][Next]_vars


----------------------------------------------------------------------------
(* The Player alone: its five operations called in any order               *)

\* The components outside the one a specification exercises stay as built.
GameIdle ==
    UNCHANGED <<state, score, highScore, frameQ, nextQ, afWhere, games>>

ObstaclesIdle ==
    UNCHANGED <<obstacles, collided, calls>>

Jump ==
    /\ player' = jump(player)
    /\ jumpUpdates' = CountJump(player)
    /\ moves' = moves
    /\ ObstaclesIdle
    /\ lastEvent' = "jump"
    /\ GameIdle

Update ==
    /\ player' = PlayerUpdate(player)
    /\ jumpUpdates' = CountUpdate(player)
    /\ moves' = moves
    /\ ObstaclesIdle
    /\ lastEvent' = "update"
    /\ GameIdle

MoveLeft ==
    /\ moves < MaxMoves
    /\ player' = moveLeft(player)
    /\ moves' = moves + 1
    /\ jumpUpdates' = jumpUpdates
    /\ ObstaclesIdle
    /\ lastEvent' = "moveLeft"
    /\ GameIdle

MoveRight ==
    /\ moves < MaxMoves
    /\ player' = moveRight(player)
    /\ moves' = moves + 1
    /\ jumpUpdates' = jumpUpdates
    /\ ObstaclesIdle
    /\ lastEvent' = "moveRight"
    /\ GameIdle

Reset ==
    /\ player' = PlayerReset(player)
    /\ UNCHANGED <<jumpUpdates, moves>>
    /\ ObstaclesIdle
    /\ lastEvent' = "reset"
    /\ GameIdle

NextPlayer ==
    \/ Jump
    \/ Update
    \/ MoveLeft
    \/ MoveRight
    \/ Reset

\* One outcome of the constructor's random draws: the ObstacleManager is not
\* exercised here.
InitPlayer ==
    InitGame

SpecPlayer ==
    InitPlayer /\ [][NextPlayer]_vars


----------------------------------------------------------------------------
(* The ObstacleManager alone: update(deltaTime, score) and reset()         *)

\* Arguments of update(): a second or three seconds of elapsed time, and a
\* score that gives the speed 8 (an obstacle needs twelve updates to pass, so
\* that more than PreloadCount obstacles can be active at once) or the speed
\* 100 (every active obstacle passes in the same update).
UpdateTimes ==
    {10, 30}

UpdateScores ==
    {7800000, 99800000}

\* The lanes drawn for the spawns of this specification.
UpdateLanes ==
    {0}

UpdateDraws(om, deltaTime) ==
    {d \in Draws(om, deltaTime) : d[2] \in UpdateLanes}

PlayerIdle ==
    UNCHANGED <<player, jumpUpdates, moves, collided>>

ObstacleUpdate ==
    /\ calls < MaxCalls
    /\ calls' = calls + 1
    /\ \E deltaTime \in UpdateTimes, sc \in UpdateScores :
          /\ ~OverBound(obstacles, deltaTime)
          /\ \E d \in UpdateDraws(obstacles, deltaTime) :
                obstacles' = ObstaclesUpdate(obstacles, deltaTime, sc,
                                             d[1], d[2], d[3])
    /\ PlayerIdle
    /\ lastEvent' = "obstacles.update"
    /\ GameIdle

ObstacleReset ==
    /\ calls < MaxCalls
    /\ calls' = calls + 1
    /\ \E interval \in SpawnIntervals :
          obstacles' = ObstaclesReset(obstacles, interval)
    /\ PlayerIdle
    /\ lastEvent' = "obstacles.reset"
    /\ GameIdle

NextObstacles ==
    \/ ObstacleUpdate
    \/ ObstacleReset

InitObstacles ==
    /\ Init
    /\ obstacles.objs[PreloadCount].type = "rock"

SpecObstacles ==
    InitObstacles /\ [][NextObstacles]_vars


----------------------------------------------------------------------------
(* The scenario of the collision tests: an idle player, one obstacle at a  *)
(* time, and after each step of both a collision check                     *)

\* Steps of the scenario: an obstacle advancing 0.2 per step needs 451 of
\* them from -80 to pass 10.
MaxTicks ==
    455

\* Score of the step that spawns: 0 (speed 0.2), or the score whose speed
\* 83.96 puts the obstacle at 3.96 in that step, where a rock (half depth
\* 0.72) ends exactly at 4.68, the near face of the player's box.
SpawnScores ==
    {0, 83760000}

\* Lanes the scenario spawns in: the player's lane and the one beside it.
ScenarioLanes ==
    {0, 1}

\* One step: Player.update(), ObstacleManager.update(deltaTime, score),
\* checkCollisions().  The first step lets 3 s pass, so that it spawns;
\* every later step passes no time and has score 0.
ScenarioTick ==
    /\ calls < MaxTicks
    /\ calls' = calls + 1
    /\ \E deltaTime \in (IF calls = 0 THEN {MaxSpawnInterval} ELSE {0}) :
       \E sc \in (IF deltaTime = 0 THEN {0} ELSE SpawnScores) :
       \E d \in Draws(obstacles, deltaTime) :
       \E p1 \in {PlayerUpdate(player)} :
       \E om1 \in {ObstaclesUpdate(obstacles, deltaTime, sc, d[1], d[2], d[3])} :
          /\ d[2] \in ScenarioLanes
          /\ d[3] = MinSpawnInterval
          /\ player' = checkCollisionsPlayer(p1)
          /\ obstacles' = om1
          /\ collided' = checkCollisions(p1, om1)
    /\ jumpUpdates' = CountUpdate(player)
    /\ moves' = moves
    /\ lastEvent' = "tick"
    /\ GameIdle

\* ObstacleManager.reset() after a detected collision, as a restart does.
ScenarioReset ==
    /\ calls < MaxTicks
    /\ collided
    /\ Len(obstacles.activeObstacles) > 0
    /\ calls' = calls + 1
    /\ obstacles' = ObstaclesReset(obstacles, MinSpawnInterval)
    /\ UNCHANGED <<player, jumpUpdates, moves, collided>>
    /\ lastEvent' = "obstacles.reset"
    /\ GameIdle

NextCollision ==
    \/ ScenarioTick
    \/ ScenarioReset

InitCollision ==
    /\ Init
    /\ obstacles.nextSpawnTime = MinSpawnInterval

SpecCollision ==
    InitCollision /\ [][NextCollision]_vars


----------------------------------------------------------------------------
(* Properties                                                              *)

\* The number of positions of seq that hold id.
Occurrences(seq, id) ==
    Cardinality({i \in 1..Len(seq) : seq[i] = id})

\* C1: after any sequence of update(dt, score) and reset() calls on an
\* ObstacleManager built with ten preloaded records, every record ever
\* created occurs exactly once in obstaclePool and activeObstacles taken
\* together, so the two lengths add up to the number of records created, and
\* a record is in activeObstacles iff its active flag is set.
PoolConservation ==
    /\ Len(obstacles.objs) >= PreloadCount
    /\ \A id \in 1..Len(obstacles.objs) :
          /\ Occurrences(obstacles.obstaclePool, id)
                + Occurrences(obstacles.activeObstacles, id) = 1
          /\ obstacles.objs[id].active
                <=> Occurrences(obstacles.activeObstacles, id) = 1
    /\ Len(obstacles.obstaclePool) + Len(obstacles.activeObstacles)
          = Len(obstacles.objs)
    /\ \A i \in 1..Len(obstacles.obstaclePool) :
          obstacles.obstaclePool[i] \in 1..Len(obstacles.objs)
    /\ \A i \in 1..Len(obstacles.activeObstacles) :
          obstacles.activeObstacles[i] \in 1..Len(obstacles.objs)

\* An update has created a record beyond the preloaded ten, and records
\* that passed the player are back in the pool while others are active.
PoolConservationWitness ==
    /\ lastEvent = "obstacles.update"
    /\ Len(obstacles.objs) > PreloadCount
    /\ Len(obstacles.obstaclePool) > 0
    /\ Len(obstacles.activeObstacles) > 0

\* C2: when the collision check of a tick made while playing returns true,
\* the game goes to gameOver and, once that tick has finished, no game-loop
\* callback remains scheduled.
CollisionStopsTicking ==
    [][(state = "playing" /\ lastEvent' = "frame" /\ collided')
          => (state' = "gameOver" /\ frameQ' + nextQ' = 0)]_vars

\* C3: the game state changes only from start to playing (start or restart
\* command, or Space), from playing to gameOver (a tick whose collision
\* check returns true) and from gameOver to playing (restart or start
\* command, or Space); start is never re-entered.
StateTransitions ==
    [][state' # state =>
          \/ /\ state \in {"start", "gameOver"}
             /\ state' = "playing"
             /\ lastEvent' \in {"startButton", "restartButton", "space"}
          \/ /\ state = "playing"
             /\ state' = "gameOver"
             /\ lastEvent' = "frame"
             /\ collided']_vars

\* A second game is being played: the first went from start to playing, on
\* to gameOver and back to playing.
StateTransitionsWitness ==
    /\ state = "playing"
    /\ games = 2
    /\ highScore > 0

AscentUpdates ==
    (JumpForce + Gravity - 1) \div Gravity

\* The update() that lands a jump made from the ground: the first n > 0 with
\* n * jumpForce - gravity * n * (n + 1) / 2 <= 0.
LandingUpdate ==
    CHOOSE n \in 1..200 :
        /\ 2 * n * JumpForce - Gravity * n * (n + 1) <= 0
        /\ \A m \in 1..(n - 1) : 2 * m * JumpForce - Gravity * m * (m + 1) > 0

\* C8: after a jump() made on the ground, the repeated update() calls take
\* the player from Ascending to Descending at exactly update number
\* ceil(jumpForce / gravity) = 30, and back to Grounded at height 0 at a fixed
\* update, the 59th.
JumpArc ==
    [][lastEvent' = "update" =>
          /\ AscentUpdates = 30
          /\ LandingUpdate = 59
          /\ (Phase(player) = "Ascending" /\ Phase(player') # "Ascending")
                => (Phase(player') = "Descending"
                      /\ jumpUpdates' = AscentUpdates)
          /\ Phase(player') = "Ascending" => jumpUpdates' < AscentUpdates
          /\ (Phase(player) = "Descending" /\ Phase(player') # "Descending")
                => (Phase(player') = "Grounded"
                      /\ player'.y = 0
                      /\ jumpUpdates' = LandingUpdate)
          /\ Phase(player') = "Descending"
                => (jumpUpdates' >= AscentUpdates
                      /\ jumpUpdates' < LandingUpdate)]_vars

\* A jump has run its whole arc: the update that landed it was the 59th.
JumpArcWitness ==
    /\ lastEvent = "update"
    /\ Phase(player) = "Grounded"
    /\ jumpUpdates = 59
    /\ player.y = 0
    /\ player.jumpVelocity = <<JumpForce - 59 * Gravity>>

\* C9: after every operation of the Player the height is >= 0; a Grounded
\* player has height 0; a Descending player becomes Grounded in exactly the
\* update() in which its height reaches <= 0, where it is clamped to 0.
HeightNeverNegative ==
    [][/\ player'.y >= PositionY
       /\ PositionY = 0
       /\ Phase(player') = "Grounded" => player'.y = PositionY
       /\ (lastEvent' = "update" /\ Phase(player) = "Descending")
             => IF player.y + player.jumpVelocity[1] - Gravity <= PositionY
                THEN Phase(player') = "Grounded" /\ player'.y = PositionY
                ELSE Phase(player') = "Descending" /\ player'.y > PositionY]_vars

\* reset() was called on a player in the air, off the centre line.
HeightNeverNegativeWitness ==
    /\ lastEvent = "reset"
    /\ Phase(player) = "Grounded"
    /\ player.y = 0
    /\ jumpUpdates \in 1..58
    /\ moves > 0

\* C10: jump() called on a Grounded player makes it Ascending with
\* jumpVelocity = jumpForce and changes nothing else; called on an Ascending
\* or Descending player it changes no player state.
JumpOnlyWhenGrounded ==
    [][lastEvent' = "jump" =>
          IF Phase(player) = "Grounded"
          THEN /\ Phase(player') = "Ascending"
               /\ player' = [player EXCEPT !.isJumping = TRUE,
                                           !.jumpVelocity = <<JumpForce>>]
          ELSE player' = player]_vars

\* jump() was called on a player already descending.
JumpOnlyWhenGroundedWitness ==
    /\ lastEvent = "jump"
    /\ Phase(player) = "Descending"
    /\ jumpUpdates > 30
    /\ player.y > 0

\* The separation of boxes a and b on axis k: positive for a gap, zero when
\* they touch, negative when their intervals overlap.
AxisGap(a, b, k) ==
    LET lo == IF a.min[k] > b.min[k] THEN a.min[k] ELSE b.min[k]
        hi == IF a.max[k] < b.max[k] THEN a.max[k] ELSE b.max[k]
    IN  lo - hi

\* The records of the active set.
ActiveRecords ==
    {obstacles.objs[obstacles.activeObstacles[i]] :
        i \in 1..Len(obstacles.activeObstacles)}

\* The records of the pool.
PoolRecords ==
    {obstacles.objs[obstacles.obstaclePool[i]] :
        i \in 1..Len(obstacles.obstaclePool)}

\* C5: checkCollisions() returns true iff some obstacle of the active set
\* has a box whose intervals overlap the player's on all three axes, a zero
\* separation counting as overlap and a gap > 0 on any axis as none;
\* obstacles in the pool never cause a collision.
CollisionIffOverlap ==
    lastEvent = "tick" =>
        (collided <=> \E o \in ActiveRecords :
                         \A k \in 1..3 : AxisGap(player.collider, o.collider, k) <= 0)

\* The check has returned true for a rock whose box only touches the
\* player's: their separation in depth is zero.
CollisionIffOverlapWitness ==
    /\ lastEvent = "tick"
    /\ collided
    /\ \E o \in ActiveRecords :
          /\ o.type = "rock"
          /\ AxisGap(player.collider, o.collider, 3) = 0

\* The player has taken no command: it runs on the centre line.
IdlePlayer ==
    /\ player.x = 0
    /\ player.xErr = 0
    /\ player.y = 0
    /\ Phase(player) = "Grounded"

\* C6 as stated: with the player idle and an obstacle spawned in lane 0 at
\* -80 advancing 0.2 per tick, checkCollisions() returns true at the tick
\* where the obstacle's positionZ reaches 0.
CollisionAtDepthZero ==
    (/\ lastEvent = "tick"
     /\ IdlePlayer
     /\ obstacles.speed = InitialSpeed
     /\ \E o \in ActiveRecords : o.x = 0 /\ o.z = 0)
        => collided

\* C6 as amended: with the player idle and an obstacle spawned in lane 0 at
\* -80 advancing 0.2 per tick, at the tick where the obstacle's positionZ
\* reaches 5, the depth of the player, checkCollisions() returns true if the
\* obstacle is a rock, a log, a tree or a barrier, and false if it is a
\* puddle.
CollisionAtPlayerDepth ==
    \A o \in ActiveRecords :
        (/\ lastEvent = "tick"
         /\ IdlePlayer
         /\ obstacles.speed = InitialSpeed
         /\ o.x = 0
         /\ o.z = PositionZ)
            => (collided <=> o.type # "puddle")

\* The obstacle of lane 0 has come from -80 to the player's depth in 425
\* ticks and the check has returned true.
CollisionAtPlayerDepthWitness ==
    /\ lastEvent = "tick"
    /\ IdlePlayer
    /\ calls = 425
    /\ collided
    /\ \E o \in ActiveRecords : o.x = 0 /\ o.z = PositionZ

\* C7 as stated: with the player at lateral offset 0 and an active obstacle
\* in lane 1 (lateral position 2) at the player's depth, checkCollisions()
\* returns false, whatever the kind of the obstacle.
NoCollisionInLaneOne ==
    (/\ lastEvent = "tick"
     /\ IdlePlayer
     /\ \E o \in ActiveRecords : o.x = LaneWidth /\ o.z = PositionZ)
        => ~collided

\* C7 as amended: with the player at lateral offset 0 and an active obstacle
\* in lane 1 at the player's depth, checkCollisions() returns false for a
\* rock, a tree and a puddle, and true for a log and a barrier, whose boxes
\* reach from lane 1 into the player's.
CollisionInLaneOneByKind ==
    \A o \in ActiveRecords :
        (/\ lastEvent = "tick"
         /\ IdlePlayer
         /\ o.x = LaneWidth
         /\ o.z = PositionZ)
            => (collided <=> o.type \in {"log", "barrier"})

\* A rock of lane 1 is at the player's depth and the check has returned
\* false.
CollisionInLaneOneByKindWitness ==
    /\ lastEvent = "tick"
    /\ IdlePlayer
    /\ ~collided
    /\ \E o \in ActiveRecords :
          o.type = "rock" /\ o.x = LaneWidth /\ o.z = PositionZ


----------------------------------------------------------------------------
(* The Player steered: moveLeft(), moveRight(), update() and reset()       *)

\* Lateral moves beyond which no further moveLeft() or moveRight() is called
\* on a Player that is steered without jumping: eleven moves to one side
\* are what the guards of moveLeft and moveRight let through.
MaxSteers ==
    11

SteerLeft ==
    /\ moves < MaxSteers
    /\ player' = moveLeft(player)
    /\ moves' = moves + 1
    /\ jumpUpdates' = jumpUpdates
    /\ ObstaclesIdle
    /\ lastEvent' = "moveLeft"
    /\ GameIdle

SteerRight ==
    /\ moves < MaxSteers
    /\ player' = moveRight(player)
    /\ moves' = moves + 1
    /\ jumpUpdates' = jumpUpdates
    /\ ObstaclesIdle
    /\ lastEvent' = "moveRight"
    /\ GameIdle

NextLateral ==
    \/ SteerLeft
    \/ SteerRight
    \/ Update
    \/ Reset

SpecLateral ==
    InitPlayer /\ [][NextLateral]_vars

\* C11: for any sequence of moveLeft(), moveRight(), update() and reset()
\* calls starting from lateral offset 0, the lateral offset stays within
\* [-maxLateralPosition, maxLateralPosition] = [-3, 3], and a call that is
\* refused changes neither the lateral offset nor the tilt.
LateralWithinBounds ==
    /\ ~LateralGreater(player, MaxLateralPosition)
    /\ ~LateralLess(player, -MaxLateralPosition)


\* The records active in obstacles' that were not active in obstacles.
NewlyActive ==
    {id \in 1..Len(obstacles'.objs) :
        /\ obstacles'.objs[id].active
        /\ id <= Len(obstacles.objs) => ~obstacles.objs[id].active}

\* C12: an update(dt, score) spawns exactly one obstacle if
\* timeSinceLastSpawn + dt >= nextSpawnTime and none otherwise, never more
\* than one however large dt is; after a spawn the accumulator is 0 and the
\* interval is one getRandomSpawnInterval() gives; the interval is always
\* within [1.5, 3].  (An obstacle spawned at a speed above 90 passes the
\* player within the call that spawns it and is back in the pool.)
OneSpawnPerUpdate ==
    [][/\ obstacles'.nextSpawnTime >= MinSpawnInterval
       /\ obstacles'.nextSpawnTime <= MaxSpawnInterval
       /\ lastEvent' = "obstacles.update" =>
            \E deltaTime \in UpdateTimes :
               IF obstacles.timeSinceLastSpawn + deltaTime
                     >= obstacles.nextSpawnTime
               THEN /\ obstacles'.timeSinceLastSpawn = 0
                    /\ Cardinality(NewlyActive) =
                          (IF obstacles'.speed - SpawnDistance > PassedZ
                           THEN 0 ELSE 1)
                    /\ Len(obstacles'.activeObstacles)
                          <= Len(obstacles.activeObstacles) + 1
                    /\ Len(obstacles'.objs) =
                          (IF Len(obstacles.obstaclePool) = 0
                           THEN Len(obstacles.objs) + 1
                           ELSE Len(obstacles.objs))
                    /\ Len(obstacles'.obstaclePool)
                          + Len(obstacles'.activeObstacles)
                          = Len(obstacles.obstaclePool)
                               + Len(obstacles.activeObstacles)
                               + (IF Len(obstacles.obstaclePool) = 0
                                  THEN 1 ELSE 0)
               ELSE /\ obstacles'.timeSinceLastSpawn
                          = obstacles.timeSinceLastSpawn + deltaTime
                    /\ obstacles'.nextSpawnTime = obstacles.nextSpawnTime
                    /\ NewlyActive = {}
                    /\ Len(obstacles'.objs) = Len(obstacles.objs)]_vars

\* The first update let at least 3 s pass, two intervals of 1.5 s or one of
\* 3 s, and has spawned one obstacle.
OneSpawnPerUpdateWitness ==
    /\ lastEvent = "obstacles.update"
    /\ calls = 1
    /\ Len(obstacles.activeObstacles) = 1
    /\ obstacles.timeSinceLastSpawn = 0


\* C13: after every update() no active obstacle has positionZ > 10: a record
\* whose positionZ exceeds 10 in an update is, when the call returns, out of
\* the active set, marked inactive, hidden, and in the pool.
PassedObstaclesPooled ==
    \A id \in 1..Len(obstacles.objs) :
        obstacles.objs[id].z > PassedZ =>
            /\ ~obstacles.objs[id].active
            /\ ~obstacles.objs[id].visible
            /\ Occurrences(obstacles.activeObstacles, id) = 0
            /\ Occurrences(obstacles.obstaclePool, id) = 1

\* An update has taken two records past the player while a third, spawned
\* later, stays active.
PassedObstaclesPooledWitness ==
    /\ lastEvent = "obstacles.update"
    /\ Len(obstacles.activeObstacles) > 0
    /\ Cardinality({id \in 1..Len(obstacles.objs) :
                       obstacles.objs[id].z > PassedZ}) >= 2


\* C14 as stated: after the ten records preloaded at construction, update()
\* only moves records between the pool and the active set and never
\* allocates or destroys one.
RecordCountConserved ==
    Len(obstacles.objs) = PreloadCount

\* C14 as amended: update() never destroys a record and allocates one only
\* when it spawns while the pool is empty, one record per such call; with a
\* record in the pool it only moves records between the pool and the active
\* set.  reset() neither allocates nor destroys.
AllocationOnlyOnEmptyPool ==
    [][/\ Len(obstacles'.objs) >= Len(obstacles.objs)
       /\ \A id \in 1..Len(obstacles.objs) :
             obstacles'.objs[id].type = obstacles.objs[id].type
       /\ Len(obstacles'.objs) > Len(obstacles.objs) =>
             /\ lastEvent' = "obstacles.update"
             /\ Len(obstacles.obstaclePool) = 0
             /\ Len(obstacles'.objs) = Len(obstacles.objs) + 1
             /\ obstacles'.timeSinceLastSpawn = 0
       /\ (lastEvent' = "obstacles.update"
             /\ Len(obstacles.obstaclePool) = 0
             /\ obstacles'.timeSinceLastSpawn = 0)
             => Len(obstacles'.objs) = Len(obstacles.objs) + 1]_vars

\* With all ten preloaded records active, an update has spawned an
\* eleventh, newly created.
AllocationOnlyOnEmptyPoolWitness ==
    /\ lastEvent = "obstacles.update"
    /\ Len(obstacles.objs) = PreloadCount + 1
    /\ Len(obstacles.activeObstacles) = PreloadCount + 1
    /\ obstacles.activeObstacles[PreloadCount + 1] = PreloadCount + 1


\* C15: after every update(dt, score) the speed is initialSpeed + score *
\* speedIncreaseRate, hence the base speed 0.2 at score 0; within a game,
\* where the score only grows, the speed is never below the base speed and
\* never decreases from one tick to the next.
SpeedFollowsScore ==
    [][/\ obstacles'.speed = InitialSpeed + score' * SpeedIncreaseRate
       /\ obstacles'.speed >= InitialSpeed
       /\ score' = 0 => obstacles'.speed = InitialSpeed
       /\ lastEvent' = "frame" =>
             /\ score' >= score
             /\ obstacles'.speed >= obstacles.speed]_vars

\* Two ticks of the second game have each raised the score and the speed.
SpeedFollowsScoreWitness ==
    /\ lastEvent = "frame"
    /\ state = "playing"
    /\ games = 2
    /\ score = 2 * LongPause
    /\ obstacles.speed = InitialSpeed + 2 * LongPause * SpeedIncreaseRate


\* C16: after ObstacleManager.reset(), from any reachable state, the active
\* set is empty, every record that was active is in the pool, inactive and
\* hidden, the speed is the base speed 0.2, timeSinceLastSpawn is 0 and the
\* interval is a fresh one within [1.5, 3].
ObstacleResetEffect ==
    [][lastEvent' = "obstacles.reset" =>
          /\ obstacles'.activeObstacles = <<>>
          /\ \A i \in 1..Len(obstacles.activeObstacles) :
                LET id == obstacles.activeObstacles[i]
                IN  /\ Occurrences(obstacles'.obstaclePool, id) = 1
                    /\ ~obstacles'.objs[id].active
                    /\ ~obstacles'.objs[id].visible
          /\ \A id \in 1..Len(obstacles'.objs) :
                /\ ~obstacles'.objs[id].active
                /\ ~obstacles'.objs[id].visible
                /\ Occurrences(obstacles'.obstaclePool, id) = 1
          /\ Len(obstacles'.objs) = Len(obstacles.objs)
          /\ obstacles'.speed = InitialSpeed
          /\ obstacles'.timeSinceLastSpawn = 0
          /\ obstacles'.nextSpawnTime \in SpawnIntervals
          /\ obstacles'.nextSpawnTime >= MinSpawnInterval
          /\ obstacles'.nextSpawnTime <= MaxSpawnInterval]_vars

\* reset() was called with eleven obstacles on the road: all eleven are back
\* in the pool, in the order in which they were spawned.
ObstacleResetEffectWitness ==
    /\ lastEvent = "obstacles.reset"
    /\ Len(obstacles.objs) = PreloadCount + 1
    /\ obstacles.obstaclePool = [i \in 1..PreloadCount |->
                                    PreloadCount + 1 - i] \o <<PreloadCount + 1>>


\* C17: after Player.reset(), from any reachable player state, the phase is
\* Grounded, the height 0, the vertical velocity 0, the tilt 0 and the
\* lateral offset 0.  (A jumpVelocity never assigned is not held against
\* the claim.)
PlayerResetEffect ==
    [][lastEvent' = "reset" =>
          /\ Phase(player') = "Grounded"
          /\ player'.y = 0
          /\ player'.jumpVelocity # <<>> => player'.jumpVelocity = <<0>>
          /\ player'.rotZ = 0
          /\ player'.x = 0
          /\ player'.xErr = 0]_vars


----------------------------------------------------------------------------
(* Player and ObstacleManager reset together, as startGame() resets them,  *)
(* at any point of a run and any number of times in a row                  *)

\* Ticks and resets of a run.
MaxResetCalls ==
    5

\* player.update() and obstacles.update(deltaTime, score) of one tick.
ResetTick ==
    /\ calls < MaxResetCalls
    /\ calls' = calls + 1
    /\ player' = PlayerUpdate(player)
    /\ jumpUpdates' = CountUpdate(player)
    /\ \E sc \in UpdateScores :
       \E d \in UpdateDraws(obstacles, MaxSpawnInterval) :
          obstacles' = ObstaclesUpdate(obstacles, MaxSpawnInterval, sc,
                                       d[1], d[2], d[3])
    /\ UNCHANGED <<moves, collided>>
    /\ lastEvent' = "tick"
    /\ GameIdle

\* this.player.reset(); this.obstacles.reset();
ResetBoth ==
    /\ calls < MaxResetCalls
    /\ calls' = calls + 1
    /\ player' = PlayerReset(player)
    /\ \E interval \in SpawnIntervals :
          obstacles' = ObstaclesReset(obstacles, interval)
    /\ UNCHANGED <<jumpUpdates, moves, collided>>
    /\ lastEvent' = IF lastEvent \in {"resets", "resetsAgain"}
                    THEN "resetsAgain" ELSE "resets"
    /\ GameIdle

NextReset ==
    \/ Jump
    \/ MoveLeft
    \/ MoveRight
    \/ ResetTick
    \/ ResetBoth

SpecReset ==
    InitObstacles /\ [][NextReset]_vars

\* What the claim observes of a Player.
PlayerObserved(p) ==
    <<Phase(p), p.y, p.jumpVelocity, p.x, p.xErr, p.rotZ>>

\* The pool and the active set with the state of their records, and the
\* speed.
ObstaclesObserved(om) ==
    <<om.objs, om.obstaclePool, om.activeObstacles, om.speed>>

\* C18 as stated: reset() called twice in a row yields the same observable
\* state as called once, for the Player (phase, height, velocity, lateral
\* offset, tilt) and for the ObstacleManager (pool, active set, speed, and
\* the spawn scheduler: accumulator and interval).
ResetIdempotent ==
    [][lastEvent' = "resetsAgain" =>
          /\ PlayerObserved(player') = PlayerObserved(player)
          /\ ObstaclesObserved(obstacles') = ObstaclesObserved(obstacles)
          /\ obstacles'.timeSinceLastSpawn = obstacles.timeSinceLastSpawn
          /\ obstacles'.nextSpawnTime = obstacles.nextSpawnTime]_vars

\* C18 as amended: reset() called twice in a row yields the same observable
\* state as called once, for the Player (phase, height, velocity, lateral
\* offset, tilt) and for the ObstacleManager (pool, active set, speed and
\* accumulator), except that the second reset() draws the interval anew
\* within [1.5, 3].
ResetIdempotentButInterval ==
    [][lastEvent' = "resetsAgain" =>
          /\ PlayerObserved(player') = PlayerObserved(player)
          /\ ObstaclesObserved(obstacles') = ObstaclesObserved(obstacles)
          /\ obstacles'.timeSinceLastSpawn = obstacles.timeSinceLastSpawn
          /\ obstacles'.nextSpawnTime >= MinSpawnInterval
          /\ obstacles'.nextSpawnTime <= MaxSpawnInterval]_vars

\* A second reset() in a row, of a player that had jumped and steered and
\* of a manager that had an obstacle on the road, with another interval
\* than the first reset() drew.
ResetIdempotentButIntervalWitness ==
    /\ lastEvent = "resetsAgain"
    /\ calls = 3
    /\ player.jumpVelocity # <<>>
    /\ moves > 0
    /\ obstacles.objs[PreloadCount].z # 0
    /\ obstacles.nextSpawnTime = MaxSpawnInterval


----------------------------------------------------------------------------
(* checkCollisions() called at any point between the operations of the    *)
(* Player and the updates of the ObstacleManager                           *)

\* Updates of a run in which checkCollisions() is called at any point.
MaxQueryCalls ==
    3

\* Scores of these updates: the speed 8, and the speed 85 that takes an
\* obstacle from -80 to 5, the player's depth, in the update that spawns it.
QueryScores ==
    {7800000, 84800000}

\* player.update() and obstacles.update(deltaTime, score) of one tick.
QueryTick ==
    /\ calls < MaxQueryCalls
    /\ calls' = calls + 1
    /\ player' = PlayerUpdate(player)
    /\ jumpUpdates' = CountUpdate(player)
    /\ \E sc \in QueryScores :
       \E d \in Draws(obstacles, MaxSpawnInterval) :
          /\ d[2] \in ScenarioLanes
          /\ d[3] = MinSpawnInterval
          /\ obstacles' = ObstaclesUpdate(obstacles, MaxSpawnInterval, sc,
                                          d[1], d[2], d[3])
    /\ UNCHANGED <<moves, collided>>
    /\ lastEvent' = "tick"
    /\ GameIdle

\* this.collisionDetector.checkCollisions()
QueryCollisions ==
    /\ player' = checkCollisionsPlayer(player)
    /\ collided' = checkCollisions(player, obstacles)
    /\ UNCHANGED <<obstacles, jumpUpdates, moves, calls>>
    /\ lastEvent' = "checkCollisions"
    /\ GameIdle

NextQuery ==
    \/ Jump
    \/ MoveLeft
    \/ MoveRight
    \/ Reset
    \/ QueryTick
    \/ QueryCollisions

SpecQuery ==
    InitObstacles /\ [][NextQuery]_vars

\* C19: checkCollisions() is a pure query: in any reachable state it leaves
\* unchanged the player's position, phase, velocity, tilt and the value of
\* its collider, every obstacle's position, active flag and collider, and
\* the contents of the pool and of the active set.
CheckCollisionsPure ==
    [][lastEvent' = "checkCollisions" =>
          /\ player' = player
          /\ obstacles' = obstacles]_vars

\* checkCollisions() has returned true for a player that was steered and
\* is in the air.
CheckCollisionsPureWitness ==
    /\ lastEvent = "checkCollisions"
    /\ collided
    /\ moves > 0
    /\ Phase(player) # "Grounded"


\* C20: Space while playing only forwards to Player.jump(): the game stays
\* playing, score and obstacles are untouched; Space in the start state
\* performs the start transition and in gameOver the restart transition.
SpaceByState ==
    [][lastEvent' = "space" =>
          IF state = "playing"
          THEN /\ player' = jump(player)
               /\ Phase(player) = "Grounded" => Phase(player') = "Ascending"
               /\ UNCHANGED <<state, score, highScore, obstacles,
                              frameQ, nextQ, afWhere, collided>>
          ELSE /\ state' = "playing"
               /\ score' = 0
               /\ highScore' = highScore
               /\ Phase(player') = "Grounded"
               /\ player'.y = 0
               /\ player'.x = 0
               /\ obstacles'.activeObstacles = <<>>
               /\ Len(obstacles'.obstaclePool) = Len(obstacles.objs)
               /\ obstacles'.speed = InitialSpeed
               /\ obstacles'.timeSinceLastSpawn = 0
               /\ nextQ' = nextQ + 1
               /\ afWhere' = "next"]_vars

\* Space has made the player jump in the second game, with a score on the
\* board and an obstacle on the road.
SpaceByStateWitness ==
    /\ lastEvent = "space"
    /\ state = "playing"
    /\ games = 2
    /\ Phase(player) = "Ascending"
    /\ jumpUpdates = 0
    /\ score > 0
    /\ Len(obstacles.activeObstacles) > 0


----------------------------------------------------------------------------
(* The game with the keys that are not Space                               *)

\* event.code of the keys a player steers with.
SteeringKeys ==
    {"ArrowLeft", "ArrowRight"}

\* A faulty variant of handleKeyDownOther: the arrow keys steer the player
\* whatever the state of the game.
handleKeyDownSteering(g, code) ==
    [g EXCEPT !.player = IF code = "ArrowLeft" THEN moveLeft(g.player)
                         ELSE moveRight(g.player)]

\* handleKeyDown for event.code # 'Space': the test of event.code fails and
\* the handler returns; no other listener calls moveLeft() or moveRight().
handleKeyDownOther(g, code) ==
    g

KeyOther ==
    /\ frameQ = 0
    /\ \E code \in SteeringKeys :
          \E g \in {handleKeyDownOther(Cur, code)} : Becomes(g)
    /\ UNCHANGED <<games, jumpUpdates, moves, calls>>
    /\ lastEvent' = "arrowKey"

NextKeys ==
    \/ ClickStart
    \/ ClickRestart
    \/ KeySpace
    \/ AnimationFrame
    \/ KeyOther

SpecKeys ==
    InitGame /\ [][NextKeys]_vars

----------------------------------------------------------------------------
(* checkCollisions() given a player that createPlayer() has not built yet, *)
(* and an active list that holds a record as createObstacle() left it      *)

\* The Player between the assignments of its constructor and the call of
\* createPlayer(): mesh and collider are null.
PlayerBeforeCreate ==
    [NewPlayer EXCEPT !.collider = NullBox]

\* this.createPlayer(), which ends the constructor.
createPlayer(p) ==
    updateCollider(p)

\* An activeObstacles that starts with a record createObstacle() returned
\* and nothing touched since (collider: null): the first of the pool.
WithBareObstacle(om) ==
    [om EXCEPT !.activeObstacles = <<om.obstaclePool[1]>> \o @,
               !.obstaclePool = Tail(@)]

\* The ObstacleManagers handed to the CollisionDetector: as constructed, or
\* after the update that spawns a rock in the player's lane and carries it
\* to the player's depth; each with or without a record that has no
\* collider at the head of the active list.
GuardManagers ==
    LET built == {NewObstacleManager(types, MinSpawnInterval) :
                     types \in {t \in PreloadTypes : t[PreloadCount] = "rock"}}
        met   == {ObstaclesUpdate(om, MaxSpawnInterval, 84800000, "rock", 0,
                                  MinSpawnInterval) : om \in built}
    IN  UNION {{om, WithBareObstacle(om)} : om \in built \cup met}

InitGuard ==
    /\ state = "start"
    /\ score = 0
    /\ highScore = 0
    /\ player = PlayerBeforeCreate
    /\ obstacles \in GuardManagers
    /\ frameQ = 0
    /\ nextQ = 0
    /\ afWhere = "none"
    /\ collided = FALSE
    /\ games = 0
    /\ jumpUpdates = 0
    /\ moves = 0
    /\ calls = 0
    /\ lastEvent = "constructor"

CreatePlayer ==
    /\ player.collider = NullBox
    /\ player' = createPlayer(player)
    /\ UNCHANGED <<jumpUpdates, moves>>
    /\ ObstaclesIdle
    /\ lastEvent' = "createPlayer"
    /\ GameIdle

\* jump() and update() of a Player that has been built.
BuiltJump ==
    /\ player.collider # NullBox
    /\ Jump

BuiltUpdate ==
    /\ player.collider # NullBox
    /\ Update

NextGuard ==
    \/ CreatePlayer
    \/ BuiltJump
    \/ BuiltUpdate
    \/ QueryCollisions

SpecGuard ==
    InitGuard /\ [][NextGuard]_vars

\* C22: checkCollisions() returns false and leaves the player as it is when
\* the player has no collider yet; otherwise it returns true exactly when
\* some active obstacle that has a collider intersects the player's box, so
\* an active obstacle without a collider is passed over and the ones after
\* it are still compared.
ChecksGuarded ==
    [][lastEvent' = "checkCollisions" =>
          IF player.collider = NullBox
          THEN ~collided' /\ player' = player
          ELSE collided' =
                 (\E i \in 1..Len(obstacles.activeObstacles) :
                    LET o == obstacles.objs[obstacles.activeObstacles[i]]
                    IN  /\ o.collider # NullBox
                        /\ intersectsBox(updateCollider(player).collider,
                                         o.collider))]_vars

\* checkCollisions() has returned true although the first active obstacle
\* has no collider: the rock behind it was still compared.
ChecksGuardedWitness ==
    /\ lastEvent = "checkCollisions"
    /\ collided
    /\ Len(obstacles.activeObstacles) = 2
    /\ obstacles.objs[obstacles.activeObstacles[1]].collider = NullBox

\* checkCollisions() has returned for a player without a collider, given an
\* active list that holds the rock at the player's depth.
ChecksGuardedBeforeCreate ==
    /\ lastEvent = "checkCollisions"
    /\ player.collider = NullBox
    /\ \E i \in 1..Len(obstacles.activeObstacles) :
          obstacles.objs[obstacles.activeObstacles[i]].z = 5000000

----------------------------------------------------------------------------
(* The callbacks of the game loop                                          *)

\* C23: under every interleaving of the start button, the restart button
\* and Space with the animation frames, at most one game-loop callback is
\* pending at any time (so that one animation frame runs update() of the
\* Player and of the ObstacleManager at most once).
OneLoopPending ==
    frameQ + nextQ <= 1

----------------------------------------------------------------------------
(* The game with moveLeft() and moveRight() called between its frames      *)

\* Games of a run in which the player is steered.
MaxSteeredGames ==
    1

\* The start button and Space, for at most MaxSteeredGames games.
SteeredStart ==
    /\ state # "playing" => games < MaxSteeredGames
    /\ ClickStart

SteeredSpace ==
    /\ state # "playing" => games < MaxSteeredGames
    /\ KeySpace

\* moveLeft() and moveRight() are called between animation frames, as the
\* input handlers are.
CallMoveLeft ==
    /\ frameQ = 0
    /\ MoveLeft

CallMoveRight ==
    /\ frameQ = 0
    /\ MoveRight

NextSteered ==
    \/ SteeredStart
    \/ SteeredSpace
    \/ AnimationFrame
    \/ CallMoveLeft
    \/ CallMoveRight

SpecSteered ==
    InitGame /\ [][NextSteered]_vars

\* The active records of an ObstacleManager.
ActiveOf(om) ==
    {om.objs[om.activeObstacles[i]] : i \in 1..Len(om.activeObstacles)}

\* C24: the collider of the player and of every active obstacle is at all
\* times the one derived from the entity's current position and pose, and a
\* tick made while playing adds to the score, updates the player, updates
\* the obstacles and only then checks for collisions: its result is that of
\* comparing the boxes derived from the positions the tick has produced.
CollidersFresh ==
    /\ [](/\ player.collider = ScaledBox(setFromPlayer(player),
                                         PlayerColliderScale)
          /\ \A o \in ActiveOf(obstacles) :
                o.collider = ScaledBox(setFromObstacle(o),
                                       ColliderScale(o.type)))
    /\ [][(lastEvent' = "frame" /\ state = "playing") =>
            /\ score' > score \/ score' = score
            /\ obstacles'.speed = InitialSpeed + SpeedIncreaseRate * score'
            /\ player'.y = PlayerUpdate(player).y
            /\ player'.rotZ = PlayerUpdate(player).rotZ
            /\ collided' =
                 (\E o \in ActiveOf(obstacles') :
                     intersectsBox(ScaledBox(setFromPlayer(player'),
                                             PlayerColliderScale),
                                   ScaledBox(setFromObstacle(o),
                                             ColliderScale(o.type))))]_vars

\* A tick has found a collision with the player steered out of the middle
\* and tilted.
CollidersFreshWitness ==
    /\ lastEvent = "frame"
    /\ collided
    /\ player.x # 0
    /\ player.rotZ # 0

----------------------------------------------------------------------------
(* update(deltaTime, score) of the ObstacleManager in its two steps: the   *)
(* speed, the timer and the spawn; then the loop over the active records   *)

\* update() up to the loop: speed, spawn timer and spawnObstacle().
UpdateSpawnStep(om, deltaTime, sc, type, lane, interval) ==
    LET timed == [om EXCEPT
                    !.speed = InitialSpeed + sc * SpeedIncreaseRate,
                    !.timeSinceLastSpawn = om.timeSinceLastSpawn + deltaTime]
    IN  IF timed.timeSinceLastSpawn >= timed.nextSpawnTime
        THEN [spawnObstacle(timed, type, lane) EXCEPT
                !.timeSinceLastSpawn = 0,
                !.nextSpawnTime = interval]
        ELSE timed

\* The loop of update().
UpdateMoveStep(om) ==
    MoveLoop(om, Len(om.activeObstacles))

\* The number of active obstacles outside the middle lane.
SideLanes(om) ==
    Cardinality({i \in 1..Len(om.activeObstacles) :
                    om.objs[om.activeObstacles[i]].x # 0})

\* Calls of update() in a run of the two steps: eleven calls that spawn
\* at the speed 8 empty the pool of ten.
MaxUpdateCalls ==
    12

\* The first step of update().  To keep the runs few, the speed 100 is drawn
\* only when at most one obstacle is active, and a side lane only while no
\* active obstacle is in one.
UpdateSpawns ==
    /\ lastEvent # "update.spawn"
    /\ calls < MaxUpdateCalls
    /\ calls' = calls + 1
    /\ \E deltaTime \in UpdateTimes, sc \in UpdateScores :
          /\ ~OverBound(obstacles, deltaTime)
          /\ sc > 7800000 => Len(obstacles.activeObstacles) <= 1
          /\ \E d \in Draws(obstacles, deltaTime) :
                /\ d[2] # 0 => SideLanes(obstacles) = 0
                /\ d[3] = MinSpawnInterval
                /\ obstacles' = UpdateSpawnStep(obstacles, deltaTime, sc,
                                                d[1], d[2], d[3])
    /\ PlayerIdle
    /\ lastEvent' = "update.spawn"
    /\ GameIdle

UpdateMoves ==
    /\ lastEvent = "update.spawn"
    /\ obstacles' = UpdateMoveStep(obstacles)
    /\ UNCHANGED calls
    /\ PlayerIdle
    /\ lastEvent' = "update.move"
    /\ GameIdle

NextUpdateSteps ==
    \/ UpdateSpawns
    \/ UpdateMoves

SpecUpdateSteps ==
    InitGame /\ [][NextUpdateSteps]_vars

\* C25: a spawn takes the last record of the pool when the pool is not
\* empty and constructs a record only when it is empty; the record is put
\* at z = -80 in a lane of {-1, 0, 1} with x = lane * 2, is active and
\* visible, has the collider derived from that position, and is appended
\* to the active set; no other record is touched.
SpawnPlacesRecord ==
    [][(lastEvent' = "update.spawn"
          /\ obstacles'.activeObstacles # obstacles.activeObstacles) =>
        LET act == obstacles'.activeObstacles
            id  == act[Len(act)]
            o   == obstacles'.objs[id]
            pool == obstacles.obstaclePool
        IN  /\ act = Append(obstacles.activeObstacles, id)
            /\ IF Len(pool) > 0
               THEN /\ id = pool[Len(pool)]
                    /\ obstacles'.obstaclePool = SubSeq(pool, 1, Len(pool) - 1)
                    /\ Len(obstacles'.objs) = Len(obstacles.objs)
                    /\ o.type = obstacles.objs[id].type
               ELSE /\ id = Len(obstacles.objs) + 1
                    /\ obstacles'.obstaclePool = pool
                    /\ Len(obstacles'.objs) = Len(obstacles.objs) + 1
            /\ o.z = -SpawnDistance
            /\ \E lane \in {-1, 0, 1} : o.x = lane * 2000000
            /\ o.active
            /\ o.visible
            /\ o.collider = ScaledBox(setFromObstacle(o), ColliderScale(o.type))
            /\ \A k \in 1..Len(obstacles.objs) :
                  k # id => obstacles'.objs[k] = obstacles.objs[k]]_vars

\* A record has just been constructed, the pool being empty, and put in a
\* side lane.
SpawnPlacesRecordWitness ==
    /\ lastEvent = "update.spawn"
    /\ obstacles.obstaclePool = <<>>
    /\ Len(obstacles.objs) > PreloadCount
    /\ LET o == obstacles.objs[Len(obstacles.objs)]
       IN  /\ o.z = -SpawnDistance
           /\ o.x # 0
           /\ obstacles.activeObstacles[Len(obstacles.activeObstacles)]
                 = Len(obstacles.objs)

\* A record taken from a pool of several has just been put in a side lane.
SpawnFromPool ==
    /\ lastEvent = "update.spawn"
    /\ Len(obstacles.obstaclePool) > 1
    /\ Len(obstacles.activeObstacles) > 1
    /\ LET act == obstacles.activeObstacles
       IN  /\ obstacles.objs[act[Len(act)]].z = -SpawnDistance
           /\ obstacles.objs[act[Len(act)]].x # 0

\* The ids of seq, in order, whose record in objs has passed (z > 10), or
\* has not.
RECURSIVE SelectIds(_, _, _)
SelectIds(seq, objs, passed) ==
    IF seq = <<>> THEN <<>>
    ELSE IF (objs[Head(seq)].z > PassedZ) = passed
         THEN <<Head(seq)>> \o SelectIds(Tail(seq), objs, passed)
         ELSE SelectIds(Tail(seq), objs, passed)

\* seq in reverse order.
RECURSIVE Reverse(_)
Reverse(seq) ==
    IF seq = <<>> THEN <<>>
    ELSE Append(Reverse(Tail(seq)), Head(seq))

\* C26: the loop of one update() adds the speed to the depth of every
\* obstacle that is active when it starts, the one spawned earlier in the
\* same call included, exactly once, also when others are removed during the
\* loop; the records not active are left alone, the ones that have not passed
\* stay active in their order and the ones that have passed go to the pool.
EachMovedOnce ==
    [][lastEvent' = "update.move" =>
        LET act == obstacles.activeObstacles
            ids == {act[i] : i \in 1..Len(act)}
        IN  /\ \A id \in ids :
                 obstacles'.objs[id].z = obstacles.objs[id].z + obstacles.speed
            /\ \A id \in (1..Len(obstacles.objs)) \ ids :
                 obstacles'.objs[id] = obstacles.objs[id]
            /\ Len(obstacles'.objs) = Len(obstacles.objs)
            /\ obstacles'.activeObstacles =
                  SelectIds(act, obstacles'.objs, FALSE)
            /\ obstacles'.obstaclePool =
                  obstacles.obstaclePool
                     \o Reverse(SelectIds(act, obstacles'.objs, TRUE))]_vars

\* The loop has just removed the first of several active obstacles: the
\* last of the pool passed in this call, and the others stay active.
EachMovedOnceWitness ==
    /\ lastEvent = "update.move"
    /\ Len(obstacles.activeObstacles) >= 2
    /\ Len(obstacles.obstaclePool) > 0
    /\ LET o == obstacles.objs[obstacles.obstaclePool[Len(obstacles.obstaclePool)]]
       IN  /\ o.z > PassedZ
           /\ o.z - obstacles.speed <= PassedZ
           /\ o.z - obstacles.speed > -SpawnDistance

----------------------------------------------------------------------------
(* The game with animation frames that keep coming                         *)

\* Frames of a run that let time pass and so spawn; the other frames of the
\* run follow at once (deltaTime 0: the score and the speed stay).
MaxLiveSpawns ==
    2

\* Time passed at a frame that spawns: three seconds (the speed stays near
\* 0.2, an obstacle needs 451 ticks to pass) or the long pause.
LiveTimes ==
    {MaxSpawnInterval, LongPause}

\* An animation frame, as AnimationFrame; time passes at the frames that
\* find no active obstacle, at most MaxLiveSpawns of them, and only there.
LiveFrame ==
    /\ frameQ + nextQ > 0
    /\ LET begin == frameQ = 0
           g0 == IF begin
                 THEN [Cur EXCEPT !.frameQ = nextQ, !.nextQ = 0,
                                  !.afWhere = IF afWhere = "next"
                                              THEN "frame" ELSE afWhere]
                 ELSE Cur
           g1 == [g0 EXCEPT !.frameQ = g0.frameQ - 1,
                            !.afWhere = IF g0.afWhere = "frame" /\ g0.frameQ = 1
                                        THEN "none" ELSE g0.afWhere]
           long == /\ begin
                   /\ state = "playing"
                   /\ obstacles.activeObstacles = <<>>
                   /\ calls < MaxLiveSpawns
       IN  \E deltaTime \in (IF long THEN LiveTimes ELSE {0}) :
              \E d \in Draws(obstacles, deltaTime) :
                 /\ d[2] \in ScenarioLanes
                 /\ d[3] = MinSpawnInterval
                 /\ calls' = IF deltaTime > 0 THEN calls + 1 ELSE calls
                 /\ \E g \in {gameLoop(g1, deltaTime, d[1], d[2], d[3])} : Becomes(g)
    /\ UNCHANGED <<games, moves>>
    /\ jumpUpdates' = IF state = "playing" THEN CountUpdate(player)
                      ELSE jumpUpdates
    /\ lastEvent' = "frame"

\* The start button, with the first interval of the game the shortest.
LiveStart ==
    /\ ClickStart
    /\ obstacles'.nextSpawnTime = MinSpawnInterval

NextLive ==
    \/ LiveStart
    \/ LiveFrame

\* The browser keeps running the animation frames that have been requested.
SpecLive ==
    InitGame /\ [][NextLive]_vars /\ WF_vars(LiveFrame)

IdleFramesInert ==
    [][(state \in {"start", "gameOver"}) =>
          (\/ lastEvent' \in {"startButton", "restartButton", "space"}
           \/ /\ lastEvent' = "frame"
              /\ state' = state
              /\ score' = score
              /\ highScore' = highScore
              /\ player' = player
              /\ obstacles' = obstacles
              /\ frameQ + nextQ > frameQ' + nextQ')]_vars

\* The callback left pending by the tick that ended the game has run in
\* gameOver, the obstacles still being active.
IdleFramesInertWitness ==
    /\ lastEvent = "frame"
    /\ state = "gameOver"
    /\ frameQ + nextQ = 0
    /\ Len(obstacles.activeObstacles) > 0

----------------------------------------------------------------------------
(* The tilt of the Player: moveLeft(), moveRight(), jump() and update(),   *)
(* with the updates since the last move counted                            *)

\* Lateral moves of a run that follows the tilt: four moves to one side
\* take the tilt to its limit.
MaxTiltMoves ==
    4

\* Updates since the last move beyond which they are no longer counted.
MaxTiltUpdates ==
    21

\* To keep the runs few, a move follows the move before it after at most one
\* update, and jump() is called only before the first update after a move.
TiltLeft ==
    /\ moves < MaxTiltMoves
    /\ calls <= 1
    /\ player' = moveLeft(player)
    /\ moves' = moves + 1
    /\ calls' = 0
    /\ UNCHANGED <<obstacles, collided, jumpUpdates>>
    /\ lastEvent' = "moveLeft"
    /\ GameIdle

TiltRight ==
    /\ moves < MaxTiltMoves
    /\ calls <= 1
    /\ player' = moveRight(player)
    /\ moves' = moves + 1
    /\ calls' = 0
    /\ UNCHANGED <<obstacles, collided, jumpUpdates>>
    /\ lastEvent' = "moveRight"
    /\ GameIdle

TiltUpdate ==
    /\ player' = PlayerUpdate(player)
    /\ jumpUpdates' = CountUpdate(player)
    /\ calls' = IF calls < MaxTiltUpdates THEN calls + 1 ELSE calls
    /\ UNCHANGED <<obstacles, collided, moves>>
    /\ lastEvent' = "update"
    /\ GameIdle

TiltJump ==
    /\ calls = 0
    /\ Jump

NextTilt ==
    \/ TiltLeft
    \/ TiltRight
    \/ TiltUpdate
    \/ TiltJump

SpecTilt ==
    InitPlayer /\ [][NextTilt]_vars

\* C29: the tilt stays within [-0.2, 0.2]; a moveLeft() that is applied adds
\* 0.05 to it, up to 0.2 at most, and a moveRight() that is applied takes
\* 0.05 from it, down to -0.2 at most; every update(), whatever the phase,
\* takes it 0.01 towards 0, and to 0 once it is within 0.01 of 0; so after
\* twenty updates without a move in between it is 0.
TiltBounded ==
    /\ [](/\ player.rotZ <= MaxTilt
          /\ player.rotZ >= -MaxTilt
          /\ calls >= MaxTilt \div TiltReturnStep => player.rotZ = 0)
    /\ [][/\ (lastEvent' = "moveLeft" /\ player'.x # player.x) =>
                player'.rotZ = (IF player.rotZ + 500 < 2000
                                THEN player.rotZ + 500 ELSE 2000)
          /\ (lastEvent' = "moveRight" /\ player'.x # player.x) =>
                player'.rotZ = (IF player.rotZ - 500 > -2000
                                THEN player.rotZ - 500 ELSE -2000)
          /\ lastEvent' = "update" =>
                player'.rotZ = (IF player.rotZ > 100 THEN player.rotZ - 100
                                ELSE IF player.rotZ < -100
                                     THEN player.rotZ + 100 ELSE 0)]_vars

\* An update() made in the air has taken the tilt from its limit back by
\* 0.01.
TiltBoundedWitness ==
    /\ lastEvent = "update"
    /\ Phase(player) # "Grounded"
    /\ player.rotZ = MaxTilt - TiltReturnStep
    /\ calls = 1

----------------------------------------------------------------------------
(* The game with frames that come after different lengths of time          *)

\* Frames of a run whose frames differ in the time they let pass.
MaxSteppedFrames ==
    4

\* Time passed at a frame: one second or three seconds (none at the tick
\* startGame() makes itself).
SteppedTimes ==
    {10, 30}

\* An animation frame, as AnimationFrame, with deltaTime of SteppedTimes.
SteppedFrame ==
    /\ frameQ + nextQ > 0
    /\ calls < MaxSteppedFrames
    /\ calls' = calls + 1
    /\ LET begin == frameQ = 0
           g0 == IF begin
                 THEN [Cur EXCEPT !.frameQ = nextQ, !.nextQ = 0,
                                  !.afWhere = IF afWhere = "next"
                                              THEN "frame" ELSE afWhere]
                 ELSE Cur
           g1 == [g0 EXCEPT !.frameQ = g0.frameQ - 1,
                            !.afWhere = IF g0.afWhere = "frame" /\ g0.frameQ = 1
                                        THEN "none" ELSE g0.afWhere]
       IN  \E deltaTime \in (IF ~begin \/ state # "playing"
                             THEN {0} ELSE SteppedTimes) :
              \E d \in Draws(obstacles, deltaTime) :
                 /\ d[2] \in UpdateLanes
                 /\ d[3] = MinSpawnInterval
                 /\ \E g \in {gameLoop(g1, deltaTime, d[1], d[2], d[3])} : Becomes(g)
    /\ UNCHANGED <<games, moves>>
    /\ jumpUpdates' = IF state = "playing" THEN CountUpdate(player)
                      ELSE jumpUpdates
    /\ lastEvent' = "frame"

NextStepped ==
    \/ SteeredSpace
    \/ SteppedFrame
    \/ CallMoveLeft
    \/ CallMoveRight

SpecStepped ==
    InitGame /\ [][NextStepped]_vars

====
